---- MODULE Spec2Model ----
(***************************************************************************)
(* Model of the Samil inverter client (src/samil/inverter.py and           *)
(* src/samil/statustypes.py): the Inverter session, the KeepAliveInverter  *)
(* wrapper with its background keep-alive thread, and the status decoder.  *)
(* Byte strings are sequences of integers 0..255.                          *)
(***************************************************************************)
EXTENDS Integers, Sequences, FiniteSets, TLC

(***************************************************************************)
(* Bounds of the model.                                                    *)
(***************************************************************************)
\* Largest keep_alive period, in clock ticks, given to the constructor.
MaxPeriod == 1
\* Longest the request queue towards the inverter and the receive stream get.
MaxQ == 2
\* Streams of at most this many bytes also arrive one byte at a time.
MaxChop == 24
\* Number of read_message calls made on one stream.
MaxReads == 2
\* Largest retries argument of open_with_retries.
MaxRetries == 2
\* Largest advertisements argument of find_inverter.
MaxAdvertisements == 2
\* Largest interval argument of find_inverter, in clock ticks.
MaxInterval == 1
\* Most inbound connections that wait on the listening socket.
MaxPending == 1
\* Most messages on their way on an unreliable connection, both directions.
MaxInFlight == 2
\* Largest n of connect_inverters: the most sessions that exist together.
MaxInverters == 2

(***************************************************************************)
(* Byte-string helpers (Python bytes semantics).                           *)
(***************************************************************************)
\* bytes.startswith
StartsWith(s, p) ==
    /\ Len(p) <= Len(s)
    /\ \A i \in 1..Len(p) : s[i] = p[i]

\* bytes.find(byte): 0-based index of the first occurrence, -1 when absent.
Find(s, b) ==
    IF \E i \in 1..Len(s) : s[i] = b
    THEN (CHOOSE i \in 1..Len(s) : s[i] = b /\ \A j \in 1..(i-1) : s[j] # b) - 1
    ELSE -1

\* Python slice s[a:b] for 0 <= a <= b: truncated at the end of s.
Slice(s, a, b) ==
    LET hi == IF b < Len(s) THEN b ELSE Len(s)
    IN  IF a >= hi THEN <<>> ELSE [i \in 1..(hi - a) |-> s[a + i]]

\* Concatenation of a sequence of byte strings (b''.join).
RECURSIVE Join(_)
Join(ss) == IF ss = <<>> THEN <<>> ELSE Head(ss) \o Join(Tail(ss))

RECURSIVE Pow(_, _)
Pow(b, n) == IF n = 0 THEN 1 ELSE b * Pow(b, n - 1)

\* int.from_bytes(s, byteorder='big', signed=False)
RECURSIVE BigEndian(_)
BigEndian(s) ==
    IF s = <<>> THEN 0
    ELSE BigEndian(SubSeq(s, 1, Len(s) - 1)) * 256 + s[Len(s)]

\* int.from_bytes(s, byteorder='big', signed=signed)
\* (two's complement: a first byte of 128 or more weighs 256 less)
FromBytes(s, signed) ==
    IF signed /\ Len(s) > 0 /\ s[1] >= 128
    THEN BigEndian(<<s[1] - 256>> \o Tail(s))
    ELSE BigEndian(s)

(***************************************************************************)
(* Values returned by status descriptors.  t is the Python type of the     *)
(* value: "none" is None, "err" is a raised exception.                     *)
(***************************************************************************)
NoneVal == [t |-> "none", v |-> 0, e |-> 0, s |-> <<>>, str |-> ""]
BytesVal(b) == [t |-> "bytes", v |-> 0, e |-> 0, s |-> b, str |-> ""]
IntVal(n) == [t |-> "int", v |-> n, e |-> 0, s |-> <<>>, str |-> ""]
\* decimal.Decimal with coefficient n and exponent e: n * 10^e, exact.
DecVal(n, e) == [t |-> "dec", v |-> n, e |-> e, s |-> <<>>, str |-> ""]
StrVal(str) == [t |-> "str", v |-> 0, e |-> 0, s |-> <<>>, str |-> str]
ErrVal == [t |-> "err", v |-> 0, e |-> 0, s |-> <<>>, str |-> ""]
\* get_value has not returned yet.
PendingVal == [t |-> "pending", v |-> 0, e |-> 0, s |-> <<>>, str |-> ""]

(***************************************************************************)
(* Status descriptors (statustypes.py).  A descriptor is a record          *)
(*   [kind, ids, signed, scale, presence, sub]                             *)
(* where sub is the sequence of wrapped descriptors.                       *)
(***************************************************************************)
BytesStatusType(ids) ==
    [kind |-> "bytes", ids |-> ids, signed |-> FALSE, scale |-> 0,
     presence |-> FALSE, sub |-> <<>>]
IntStatusType(ids, signed) ==
    [kind |-> "int", ids |-> ids, signed |-> signed, scale |-> 0,
     presence |-> FALSE, sub |-> <<>>]
DecimalStatusType(ids, scale, signed) ==
    [kind |-> "decimal", ids |-> ids, signed |-> signed, scale |-> scale,
     presence |-> FALSE, sub |-> <<>>]
OperationModeStatusType ==
    [kind |-> "mode", ids |-> <<12>>, signed |-> FALSE, scale |-> 0,
     presence |-> FALSE, sub |-> <<>>]
OneOfStatusType(subs) ==
    [kind |-> "oneof", ids |-> <<>>, signed |-> FALSE, scale |-> 0,
     presence |-> FALSE, sub |-> subs]
IfPresentStatusType(id, presence, st) ==
    [kind |-> "ifpresent", ids |-> <<id>>, signed |-> FALSE, scale |-> 0,
     presence |-> presence, sub |-> <<st>>]

\* The mutant of BytesGetValue: the slots are concatenated in the order of
\* the format.
BytesGetValueFormatOrder(ids, fmt, payload) ==
    LET indices == [k \in 1..Len(ids) |-> Find(fmt, ids[k])]
        wanted == {indices[k] : k \in 1..Len(ids)}
    IN  IF \E k \in 1..Len(ids) : indices[k] = -1
        THEN NoneVal
        ELSE BytesVal(Join([i \in 1..Len(fmt) |->
                 IF (i - 1) \in wanted THEN Slice(payload, (i - 1) * 2, i * 2)
                 ELSE <<>>]))

\* The mutant of BytesGetValue: None as well when a slot begins beyond the
\* end of the payload.
BytesGetValueNoneBeyond(ids, fmt, payload) ==
    LET indices == [k \in 1..Len(ids) |-> Find(fmt, ids[k])]
    IN  IF \E k \in 1..Len(ids) : indices[k] = -1 \/ indices[k] * 2 >= Len(payload)
        THEN NoneVal
        ELSE BytesVal(Join([k \in 1..Len(ids) |->
                 Slice(payload, indices[k] * 2, indices[k] * 2 + 2)]))

\* BytesStatusType.get_value: None when an ID is not in the format, else the
\* concatenation of the payload slices at the IDs' positions.
BytesGetValue(ids, fmt, payload) ==
    LET indices == [k \in 1..Len(ids) |-> Find(fmt, ids[k])]
    IN  IF \E k \in 1..Len(ids) : indices[k] = -1
        THEN NoneVal
        ELSE BytesVal(Join([k \in 1..Len(ids) |->
                 Slice(payload, indices[k] * 2, indices[k] * 2 + 2)]))

\* The mutant of IntGetValue: a signed value is read as sign and magnitude.
IntGetValueSignMagnitude(ids, signed, fmt, payload) ==
    LET sequence == BytesGetValue(ids, fmt, payload)
    IN  IF sequence.t = "none" THEN NoneVal
        ELSE IF signed /\ Len(sequence.s) > 0 /\ sequence.s[1] >= 128
        THEN IntVal(0 - BigEndian(<<sequence.s[1] - 128>> \o Tail(sequence.s)))
        ELSE IntVal(BigEndian(sequence.s))

\* IntStatusType.get_value
IntGetValue(ids, signed, fmt, payload) ==
    LET sequence == BytesGetValue(ids, fmt, payload)
    IN  IF sequence.t = "none" THEN NoneVal
        ELSE IntVal(FromBytes(sequence.s, signed))

\* The mutant of DecimalGetValue: the value is rounded to whole units.
DecimalGetValueRounded(ids, scale, signed, fmt, payload) ==
    LET int_val == IntGetValue(ids, signed, fmt, payload)
    IN  IF int_val.t = "none" THEN NoneVal
        ELSE IF scale < 0 THEN DecVal(int_val.v \div Pow(10, 0 - scale), 0)
        ELSE DecVal(int_val.v, scale)

\* DecimalStatusType.get_value: Decimal(int_val).scaleb(scale)
DecimalGetValue(ids, scale, signed, fmt, payload) ==
    LET int_val == IntGetValue(ids, signed, fmt, payload)
    IN  IF int_val.t = "none" THEN NoneVal
        ELSE DecVal(int_val.v, scale)

\* operating_modes, line 109
operating_modes ==
    [n \in 0..5 |->
        CASE n = 0 -> "Wait"
          [] n = 1 -> "Normal"
          [] n = 2 -> "Fault"
          [] n = 3 -> "Permanent fault"
          [] n = 4 -> "Check"
          [] OTHER -> "PV power off"]

\* The mutant of OperationModeGetValue: an integer that is no key of the
\* table gives the first mode.
OperationModeDefault(fmt, payload) ==
    LET int_val == IntGetValue(<<12>>, FALSE, fmt, payload)
    IN  IF int_val.t = "int"
        THEN StrVal(operating_modes[IF int_val.v \in DOMAIN operating_modes
                                    THEN int_val.v ELSE 0])
        ELSE ErrVal

\* OperationModeStatusType.get_value: operating_modes[int_val], a KeyError
\* when int_val is no key of the table (None included).
OperationModeGetValue(fmt, payload) ==
    LET int_val == IntGetValue(<<12>>, FALSE, fmt, payload)
    IN  IF int_val.t = "int" /\ int_val.v \in DOMAIN operating_modes
        THEN StrVal(operating_modes[int_val.v])
        ELSE ErrVal

\* get_value of a descriptor without wrapped descriptors.
LeafGetValue(d, fmt, payload) ==
    CASE d.kind = "bytes" -> BytesGetValue(d.ids, fmt, payload)
      [] d.kind = "int" -> IntGetValue(d.ids, d.signed, fmt, payload)
      [] d.kind = "decimal" -> DecimalGetValue(d.ids, d.scale, d.signed, fmt, payload)
      [] d.kind = "mode" -> OperationModeGetValue(fmt, payload)
      [] OTHER -> NoneVal

\* The mutant of OneOfGetValue: the last value that is not None.
RECURSIVE OneOfGetValueLast(_, _, _)
OneOfGetValueLast(subs, fmt, payload) ==
    IF subs = <<>> THEN NoneVal
    ELSE LET val == LeafGetValue(subs[Len(subs)], fmt, payload)
         IN  IF val.t # "none" THEN val
             ELSE OneOfGetValueLast(SubSeq(subs, 1, Len(subs) - 1), fmt, payload)

\* OneOfStatusType.get_value: the first value that is not None; an exception
\* of a child propagates.
RECURSIVE OneOfGetValue(_, _, _)
OneOfGetValue(subs, fmt, payload) ==
    IF subs = <<>> THEN NoneVal
    ELSE LET val == LeafGetValue(Head(subs), fmt, payload)
         IN  IF val.t # "none" THEN val
             ELSE OneOfGetValue(Tail(subs), fmt, payload)

\* The mutant of IfPresentGetValue: the trigger must always be present.
IfPresentGetValueAlways(d, fmt, payload) ==
    LET actual_presence == BytesGetValue(d.ids, fmt, payload).t # "none"
    IN  IF actual_presence
        THEN LeafGetValue(d.sub[1], fmt, payload)
        ELSE NoneVal

\* IfPresentStatusType.get_value
IfPresentGetValue(d, fmt, payload) ==
    LET actual_presence == BytesGetValue(d.ids, fmt, payload).t # "none"
    IN  IF d.presence = actual_presence
        THEN LeafGetValue(d.sub[1], fmt, payload)
        ELSE NoneVal

\* StatusType.get_value, dispatched on the descriptor's class.
GetValue(d, fmt, payload) ==
    CASE d.kind = "oneof" -> OneOfGetValue(d.sub, fmt, payload)
      [] d.kind = "ifpresent" -> IfPresentGetValue(d, fmt, payload)
      [] OTHER -> LeafGetValue(d, fmt, payload)

\* The static descriptor table, in the order of the OrderedDict.
status_types == <<
    [name |-> "operation_mode", type |-> OperationModeStatusType],
    [name |-> "total_operation_time", type |-> IntStatusType(<<9, 10>>, FALSE)],
    [name |-> "pv1_input_power", type |-> DecimalStatusType(<<39>>, 0, FALSE)],
    [name |-> "pv2_input_power", type |-> DecimalStatusType(<<40>>, 0, FALSE)],
    [name |-> "pv1_voltage", type |-> DecimalStatusType(<<1>>, -1, FALSE)],
    [name |-> "pv2_voltage", type |-> DecimalStatusType(<<2>>, -1, FALSE)],
    [name |-> "pv1_current", type |-> DecimalStatusType(<<4>>, -1, FALSE)],
    [name |-> "pv2_current", type |-> DecimalStatusType(<<5>>, -1, FALSE)],
    [name |-> "output_power", type |-> OneOfStatusType(<<
        DecimalStatusType(<<11>>, 0, FALSE), DecimalStatusType(<<52>>, 0, FALSE)>>)],
    [name |-> "energy_today", type |-> DecimalStatusType(<<17>>, -2, FALSE)],
    [name |-> "energy_total", type |-> OneOfStatusType(<<
        DecimalStatusType(<<7, 8>>, -1, FALSE), DecimalStatusType(<<53, 54>>, -1, FALSE)>>)],
    [name |-> "grid_voltage", type |->
        IfPresentStatusType(81, FALSE, DecimalStatusType(<<50>>, -1, FALSE))],
    [name |-> "grid_current", type |->
        IfPresentStatusType(81, FALSE, DecimalStatusType(<<49>>, -1, FALSE))],
    [name |-> "grid_frequency", type |->
        IfPresentStatusType(81, FALSE, DecimalStatusType(<<51>>, -2, FALSE))],
    [name |-> "grid_voltage_r_phase", type |->
        IfPresentStatusType(81, TRUE, DecimalStatusType(<<50>>, -1, FALSE))],
    [name |-> "grid_current_r_phase", type |->
        IfPresentStatusType(81, TRUE, DecimalStatusType(<<49>>, -1, FALSE))],
    [name |-> "grid_frequency_r_phase", type |->
        IfPresentStatusType(81, TRUE, DecimalStatusType(<<51>>, -2, FALSE))],
    [name |-> "grid_voltage_s_phase", type |-> DecimalStatusType(<<82>>, -1, FALSE)],
    [name |-> "grid_current_s_phase", type |-> DecimalStatusType(<<81>>, -1, FALSE)],
    [name |-> "grid_frequency_s_phase", type |-> DecimalStatusType(<<83>>, -2, FALSE)],
    [name |-> "grid_voltage_t_phase", type |-> DecimalStatusType(<<114>>, -1, FALSE)],
    [name |-> "grid_current_t_phase", type |-> DecimalStatusType(<<113>>, -1, FALSE)],
    [name |-> "grid_frequency_t_phase", type |-> DecimalStatusType(<<115>>, -2, FALSE)],
    [name |-> "internal_temperature", type |-> DecimalStatusType(<<0>>, -1, TRUE)],
    [name |-> "heatsink_temperature", type |-> DecimalStatusType(<<47>>, -1, TRUE)]
>>

\* Inverter.status, lines 116-122: the values of all descriptors that are not
\* None, in table order; exc is "KeyError" when a descriptor raises.
RECURSIVE DecodeFrom(_, _, _, _)
DecodeFrom(i, fmt, payload, acc) ==
    IF i > Len(status_types) THEN [exc |-> "none", values |-> acc]
    ELSE LET val == GetValue(status_types[i].type, fmt, payload)
         IN  IF val.t = "err" THEN [exc |-> "KeyError", values |-> <<>>]
             ELSE IF val.t # "none"
             THEN DecodeFrom(i + 1, fmt, payload,
                      Append(acc, [name |-> status_types[i].name, val |-> val]))
             ELSE DecodeFrom(i + 1, fmt, payload, acc)

\* The mutant of DecodeStatus: the values that are None are kept as well.
DecodeStatusKeepNone(fmt, payload) ==
    LET first == GetValue(status_types[1].type, fmt, payload)
    IN  IF first.t = "err" THEN [exc |-> "KeyError", values |-> <<>>]
        ELSE [exc |-> "none",
              values |-> [i \in 1..Len(status_types) |->
                  [name |-> status_types[i].name,
                   val |-> GetValue(status_types[i].type, fmt, payload)]]]

DecodeStatus(fmt, payload) == DecodeFrom(1, fmt, payload, <<>>)

(***************************************************************************)
(* Messages and the inverter at the other end of the connection.           *)
(***************************************************************************)
Msg(id, payload) == [id |-> id, payload |-> payload]
NoMsg == Msg(<<>>, <<>>)

FormatReq == <<1, 0, 2>>
StatusReq == <<1, 2, 2>>
FormatPrefix == <<1, 128>>
StatusPrefix == <<1, 130>>

\* Identifiers and expected prefixes the caller passes to send() and
\* request(); the payload of a request is empty, as in all calls of the code.
RequestIds == {FormatReq, StatusReq}

\* model(), line 77: the request for the model information, and the payloads
\* the inverter answers it with (the device type is the first byte).
ModelReq == <<1, 3, 2>>
ModelPrefix == <<1, 131>>
ModelPayloads == {<<50>>, <<>>}
RequestPrefixes == {<<>>, FormatPrefix, StatusPrefix}

\* Status formats and status payloads the inverter answers with.
Formats == {<<>>, <<1, 12>>}
StatusPayloads == {<<1, 119, 0, 3>>, <<0, 1, 0, 9>>, <<1, 119, 0>>}

\* Messages the inverter sends without having been asked.
Unsolicited == {Msg(<<4, 128, 0>>, <<>>)}

\* Bytes of the inverter that are not a message (a wrong start, an unexpected
\* payload size or a wrong checksum): read_message raises ValueError on them.
Garbled == Msg(<<>>, <<85>>)

\* The same for the runs that exercise the keep-alive thread.
KaRequestIds == {StatusReq}
KaRequestPrefixes == {StatusPrefix}
KaFormats == {<<12>>}
KaStatusPayloads == {<<0, 1>>}

\* The answers of the inverter to a request identifier (none when unknown),
\* with a status format of F or a status payload of P.
Responses(id, F, P) ==
    CASE id = FormatReq -> {Msg(<<1, 128, 0>>, f) : f \in F}
      [] id = StatusReq -> {Msg(<<1, 130, 0>>, p) : p \in P}
      [] id = ModelReq -> {Msg(<<1, 131, 0>>, p) : p \in ModelPayloads}
      [] OTHER -> {}

(***************************************************************************)
(* The message codec (inverter.py, lines 307-361).  A function that may    *)
(* raise returns a record [exc, bytes]: exc is "none" when it returns.     *)
(***************************************************************************)
Returned(b) == [exc |-> "none", bytes |-> b]
Raised(exc) == [exc |-> exc, bytes |-> <<>>]

\* sum(message)
RECURSIVE Sum(_)
Sum(s) ==
    IF s = <<>> THEN 0
    ELSE IF Len(s) = 1 THEN s[1]
    ELSE LET half == Len(s) \div 2
         IN  Sum(SubSeq(s, 1, half)) + Sum(SubSeq(s, half + 1, Len(s)))

\* n.to_bytes(2, byteorder='big'): OverflowError when n does not fit.
ToBytes2(n) ==
    IF n >= 65536 THEN Raised("OverflowError")
    ELSE Returned(<<n \div 256, n % 256>>)

\* calculate_checksum, line 315
calculate_checksum(message) == ToBytes2(Sum(message))

\* construct_message, lines 320-324
construct_message(identifier, payload) ==
    LET start == <<85, 170>>
        payload_size == ToBytes2(Len(payload))
        message == start \o identifier \o payload_size.bytes \o payload
        checksum == calculate_checksum(message)
    IN  IF payload_size.exc # "none" THEN Raised(payload_size.exc)
        ELSE IF checksum.exc # "none" THEN Raised(checksum.exc)
        ELSE Returned(message \o checksum.bytes)

\* The mutant of PayloadSizeUnexpected: no sanity check of the payload size.
PayloadSizeUnchecked(payload_size) == FALSE

\* read_message, line 351: the sanity check of the declared payload size.
PayloadSizeUnexpected(payload_size) == payload_size < 0 \/ payload_size > 4096

(***************************************************************************)
(* State.                                                                  *)
(***************************************************************************)
VARIABLES
    cls,               \* class of the session object
    keep_alive_period, \* KeepAliveInverter.keep_alive_period, in ticks
    ka_thread,         \* self._ka_thread: "none" or "thread"
    ka_stop,           \* self._ka_stop (Event flag)
    ka_pc,             \* position of the thread started last
    ka_timer,          \* ticks the thread has spent in its current wait
    ka_orphans,        \* live threads no longer referenced by _ka_thread
    out_q,             \* messages written to the socket, not yet handled
    in_q,              \* messages of the inverter not yet read
    peer_open,         \* the inverter has not closed the connection
    closed,            \* sock_file and sock are closed
    fg_api,            \* public method called last by the foreground
    fg_stage,          \* within status(): "format" or "status"
    rq,                \* arguments of the request() in progress
    fg_pc,             \* position within send()/receive()/disconnect()
    fg_io,             \* which of send/receive/disconnect is in progress
    fg_msg,            \* msg of KeepAliveInverter.receive
    fg_result,         \* value returned by the last call
    fg_exc,            \* exception raised by the last call
    status_format,     \* self._status_format: <<>> is None, <<f>> is f
    rq_match,          \* the request() in progress has received a message
                       \* with the expected prefix and has not returned it
    rq_sent,           \* messages sent by the request() in progress
    rq_dropped,        \* the last request() has dropped a message
    since_fg,          \* ticks since the last foreground send/receive ended
    disc_called,       \* disconnect() has been called
    was_closed,        \* closed, when the foreground made its last call
    ka_left            \* the last message read was dropped by a keep-alive
                       \* exchange and did not answer its request

kaVars == <<ka_thread, ka_stop, ka_pc, ka_timer, ka_orphans>>
wireVars == <<out_q, in_q, peer_open>>
fgVars == <<fg_api, fg_stage, rq, fg_pc, fg_io, fg_msg, fg_result, fg_exc,
            status_format, rq_match, rq_sent, rq_dropped>>
ghostVars == <<since_fg, disc_called, was_closed, ka_left>>

\* State outside the session object, which no method of a session touches:
\* the arguments and the result of a get_value call on a status descriptor.
VARIABLES
    dec_type,          \* the descriptor (self of get_value)
    dec_format,        \* status_format
    dec_payload,       \* status_payload
    dec_value,         \* the value returned, PendingVal before the call
    dec_status         \* what lines 116-122 of status() make of the same
                       \* format and payload, PendingStatus before

decodeVars == <<dec_type, dec_format, dec_payload, dec_value, dec_status>>

\* A byte stream read by read_message, and the calls of read_message on it.
VARIABLES
    frames,            \* what the peer wrote: the frames, in order
    written,           \* the same as one byte string
    stream_src,        \* bytes written that have not arrived yet
    stream_eof,        \* the peer has closed its end
    stream_buf,        \* bytes arrived and not yet read
    rm_pc,             \* position within read_message
    rm_at,             \* number of bytes read from the stream so far
    rm_from,           \* rm_at when the current read_message was called
    rm_start,          \* start
    rm_identifier,     \* identifier
    rm_size_bytes,     \* payload_size_bytes
    rm_payload,        \* payload
    rm_results         \* outcomes of the calls that have ended, in order

codecVars == <<frames, written, stream_src, stream_eof, stream_buf, rm_pc, rm_at,
               rm_from, rm_start, rm_identifier, rm_size_bytes, rm_payload,
               rm_results>>
rmLocals == <<rm_start, rm_identifier, rm_size_bytes, rm_payload>>

\* An InverterFinder, the port it listens on, and the call in progress.
VARIABLES
    listen_sock,       \* self.listen_sock: "none" is None, else "listening"
    f_socks,           \* sockets open() has created and not closed
    port_held,         \* another listener holds port 1200
    pending,           \* inbound connections not yet accepted
    f_api,             \* method of the finder called last
    f_pc,              \* position within that method
    f_exc,             \* what the last call raised: [exc, errno]
    f_result,          \* what the last call returned: "none" or "sock"
    f_retries,         \* retries argument of open_with_retries
    f_tries,           \* tries
    f_attempts,        \* outcomes of the open() calls of this call, in order
    f_sleeps,          \* sleep(period) calls of this call
    f_advertisements,  \* advertisements argument of find_inverter
    f_interval,        \* interval argument, the timeout of listen_sock
    f_round,           \* i of the for loop: rounds that have timed out
    f_broadcasts,      \* discovery messages sent by this call
    f_wait,            \* ticks the current accept() has waited
    bc                 \* the broadcast socket: "none", "open" or "closed"

finderVars == <<listen_sock, f_socks, port_held, pending, f_api, f_pc, f_exc, f_result,
                f_retries, f_tries, f_attempts, f_sleeps, f_advertisements,
                f_interval, f_round, f_broadcasts, f_wait, bc>>
\* connect_inverters (inverterutil.py) and the sessions it yields.
VARIABLES
    class_format,      \* the class attribute Inverter._status_format
    dev_format,        \* the status format of the inverter behind session i
    objs,              \* the sessions connected so far, in order
    ci_pc,             \* position within connect_inverters
    ci_n,              \* its argument n
    ci_k,              \* sessions the loop of the finally block has handled
    ci_exc             \* the exception that leaves the with statement

utilVars == <<class_format, dev_format, objs, ci_pc, ci_n, ci_k, ci_exc>>

libVars == <<decodeVars, codecVars, finderVars, utilVars>>
vars == <<cls, keep_alive_period, kaVars, wireVars, closed, fgVars, ghostVars,
          libVars>>

NoRq == [id |-> <<>>, payload |-> <<>>, prefix |-> <<>>]
NoResult == [id |-> <<>>, payload |-> <<>>, values |-> <<>>]
MsgResult(m) == [id |-> m.id, payload |-> m.payload, values |-> <<>>]

KaAlive == {"wait", "send", "recv"}
\* Number of keep-alive threads that are running.
LiveThreads == ka_orphans + (IF ka_pc \in KaAlive THEN 1 ELSE 0)

Min(a, b) == IF a < b THEN a ELSE b

\* The loop of status() over the descriptors has not run yet.
PendingStatus == [exc |-> "pending", values |-> <<>>]

\* No get_value call is followed.
DecodeIdle ==
    /\ dec_type = OperationModeStatusType
    /\ dec_format = <<>>
    /\ dec_payload = <<>>
    /\ dec_value = PendingVal
    /\ dec_status = PendingStatus

\* No stream is followed.
CodecIdle ==
    /\ frames = <<>>
    /\ written = <<>>
    /\ stream_src = <<>>
    /\ stream_eof = FALSE
    /\ stream_buf = <<>>
    /\ rm_pc = "idle"
    /\ rm_at = 0
    /\ rm_from = 0
    /\ rm_start = <<>>
    /\ rm_identifier = <<>>
    /\ rm_size_bytes = <<>>
    /\ rm_payload = <<>>
    /\ rm_results = <<>>

\* An exception: its class and, for an OSError, its errno.
NoExc == [exc |-> "none", errno |-> 0]
Exc(class) == [exc |-> class, errno |-> 0]
OSError(errno) == [exc |-> "OSError", errno |-> errno]

\* A finder after InverterFinder.__init__ (lines 184-192), no call made;
\* held says whether another listener holds the port.
FinderInit(held) ==
    /\ listen_sock = "none"
    /\ f_socks = 0
    /\ port_held = held
    /\ pending = 0
    /\ f_api = "none"
    /\ f_pc = "idle"
    /\ f_exc = NoExc
    /\ f_result = "none"
    /\ f_retries = 0
    /\ f_tries = 0
    /\ f_attempts = <<>>
    /\ f_sleeps = 0
    /\ f_advertisements = 0
    /\ f_interval = 0
    /\ f_round = 0
    /\ f_broadcasts = 0
    /\ f_wait = 0
    /\ bc = "none"

\* No finder is followed.
FinderIdle == FinderInit(FALSE)

\* connect_inverters is not called.
UtilIdle ==
    /\ class_format = <<>>
    /\ dev_format = [i \in 1..MaxInverters |-> <<>>]
    /\ objs = <<>>
    /\ ci_pc = "idle"
    /\ ci_n = 0
    /\ ci_k = 0
    /\ ci_exc = "none"

\* State after the constructor: Inverter.__init__, and for a
\* KeepAliveInverter the first start_keep_alive().
InitObject ==
    /\ cls \in {"Inverter", "KeepAliveInverter"}
    /\ keep_alive_period \in 0..MaxPeriod
    /\ ka_thread = IF cls = "KeepAliveInverter" THEN "thread" ELSE "none"
    /\ ka_stop = FALSE
    /\ ka_pc = IF cls = "KeepAliveInverter" THEN "wait" ELSE "none"
    /\ ka_timer = 0
    /\ ka_orphans = 0
    /\ out_q = <<>>
    /\ in_q = <<>>
    /\ peer_open = TRUE
    /\ closed = FALSE
    /\ fg_api = "none"
    /\ fg_stage = "none"
    /\ rq = NoRq
    /\ fg_pc = "idle"
    /\ fg_io = "none"
    /\ fg_msg = NoMsg
    /\ fg_result = NoResult
    /\ fg_exc = "none"
    /\ status_format = <<>>
    /\ rq_match = FALSE
    /\ rq_sent = 0
    /\ rq_dropped = FALSE
    /\ since_fg = 0
    /\ disc_called = FALSE
    /\ was_closed = FALSE
    /\ ka_left = FALSE

Init == InitObject /\ DecodeIdle /\ CodecIdle /\ FinderIdle /\ UtilIdle

(***************************************************************************)
(* Foreground: the caller's thread.                                        *)
(***************************************************************************)
FgState(api, stage, r, pc, io, msg, res, exc, fmt, seen, sent, dropped) ==
    /\ fg_api' = api
    /\ fg_stage' = stage
    /\ rq' = r
    /\ fg_pc' = pc
    /\ fg_io' = io
    /\ fg_msg' = msg
    /\ fg_result' = res
    /\ fg_exc' = exc
    /\ status_format' = fmt
    /\ rq_match' = seen
    /\ rq_sent' = sent
    /\ rq_dropped' = dropped

\* First position of self.send / self.receive / self.disconnect: the
\* KeepAliveInverter overrides begin with stop_keep_alive().
FirstPc == IF cls = "KeepAliveInverter" THEN "stop" ELSE "io"

\* The public method returns res to the caller.
Finish(res) ==
    FgState(fg_api, "none", NoRq, "idle", "none", NoMsg, res, "none",
            status_format, FALSE, 0, rq_dropped)

\* The public method ends by raising exc.
Raise(exc) ==
    FgState(fg_api, "none", NoRq, "idle", "none", NoMsg, NoResult, exc,
            status_format, FALSE, 0, rq_dropped)

\* device_types, lines 78-85: the keys '1' to '6'.
device_types == {<<49>>, <<50>>, <<51>>, <<52>>, <<53>>, <<54>>}

\* model(), lines 86-96: the dictionary is built from the payload; a device
\* type that is not a key of device_types raises KeyError.
ModelReturn(msg) ==
    IF Slice(msg.payload, 0, 1) \in device_types
    THEN Finish(MsgResult(msg))
    ELSE Raise("KeyError")

\* The mutant of RequestReturn: status() raises when the size of the payload
\* is not twice the size of the format.
RequestReturnSizeChecked(msg) ==
    CASE fg_api = "request" -> Finish(MsgResult(msg))
      [] fg_api = "model" -> ModelReturn(msg)
      [] fg_api = "status_format" ->
            Finish([id |-> <<>>, payload |-> msg.payload, values |-> <<>>])
      [] fg_api = "status" /\ fg_stage = "format" ->
            FgState("status", "status",
                    [id |-> StatusReq, payload |-> <<>>, prefix |-> StatusPrefix],
                    FirstPc, "send", NoMsg, fg_result, "none", <<msg.payload>>,
                    FALSE, 0, FALSE)
      [] OTHER ->
            LET dec == DecodeStatus(status_format[1], msg.payload)
                bad == 2 * Len(status_format[1]) # Len(msg.payload)
            IN  FgState("status", "none", NoRq, "idle", "none", NoMsg,
                        [id |-> <<>>, payload |-> msg.payload,
                         values |-> IF bad THEN <<>> ELSE dec.values],
                        IF bad THEN "ValueError" ELSE dec.exc,
                        status_format, FALSE, 0, rq_dropped)

\* Inverter.request returns msg to the method that called it (lines 77, 109,
\* 129 and 155).
RequestReturn(msg) ==
    CASE fg_api = "request" -> Finish(MsgResult(msg))
      [] fg_api = "model" -> ModelReturn(msg)
      [] fg_api = "status_format" ->
            Finish([id |-> <<>>, payload |-> msg.payload, values |-> <<>>])
      [] fg_api = "status" /\ fg_stage = "format" ->
            \* line 107 caches the format, line 109 requests the status
            FgState("status", "status",
                    [id |-> StatusReq, payload |-> <<>>, prefix |-> StatusPrefix],
                    FirstPc, "send", NoMsg, fg_result, "none", <<msg.payload>>,
                    FALSE, 0, FALSE)
      [] OTHER ->
            \* lines 111-122 of status()
            LET dec == DecodeStatus(status_format[1], msg.payload)
            IN  FgState("status", "none", NoRq, "idle", "none", NoMsg,
                        [id |-> <<>>, payload |-> msg.payload, values |-> dec.values],
                        dec.exc, status_format, FALSE, 0, rq_dropped)

\* The mutant of RequestLoop: the first message received is returned.
RequestLoopNoCheck(msg, match, sent) == RequestReturn(msg)

\* Inverter.request, lines 150-155: the response is returned when its
\* identifier starts with expected_response_id, else the next one is read.
RequestLoop(msg, match, sent) ==
    IF StartsWith(msg.id, rq.prefix)
    THEN RequestReturn(msg)
    ELSE FgState(fg_api, fg_stage, rq, FirstPc, "recv", NoMsg, fg_result,
                 "none", status_format, match, sent, TRUE)

\* self.send or self.receive returns to the code that called it; sent is the
\* number of messages the request() has sent so far.
Return(kind, msg, sent) ==
    CASE fg_api = "send" -> Finish(NoResult)
      [] fg_api = "receive" -> Finish(MsgResult(msg))
      [] kind = "send" ->
            \* request(), line 150
            FgState(fg_api, fg_stage, rq, FirstPc, "recv", NoMsg, fg_result,
                    "none", status_format, rq_match, sent, rq_dropped)
      [] OTHER ->
            RequestLoop(msg, rq_match \/ StartsWith(msg.id, rq.prefix), sent)

\* The caller calls send(identifier, payload).
CallSend(id, payload) ==
    /\ fg_pc = "idle"
    /\ FgState("send", "none", [id |-> id, payload |-> payload, prefix |-> <<>>],
               FirstPc, "send", NoMsg, NoResult, "none", status_format, FALSE, 0, FALSE)
    /\ UNCHANGED <<libVars, cls, keep_alive_period, kaVars, wireVars, closed, since_fg,
                   disc_called, ka_left>>
    /\ was_closed' = closed

\* The caller calls receive().
CallReceive ==
    /\ fg_pc = "idle"
    /\ FgState("receive", "none", NoRq, FirstPc, "recv", NoMsg, NoResult, "none",
               status_format, FALSE, 0, FALSE)
    /\ UNCHANGED <<libVars, cls, keep_alive_period, kaVars, wireVars, closed, since_fg,
                   disc_called, ka_left>>
    /\ was_closed' = closed

\* The caller calls request(identifier, payload, expected_response_id).
CallRequest(id, payload, prefix) ==
    /\ fg_pc = "idle"
    /\ FgState("request", "none", [id |-> id, payload |-> payload, prefix |-> prefix],
               FirstPc, "send", NoMsg, NoResult, "none", status_format, FALSE, 0, FALSE)
    /\ UNCHANGED <<libVars, cls, keep_alive_period, kaVars, wireVars, closed, since_fg,
                   disc_called, ka_left>>
    /\ was_closed' = closed

\* The caller calls model().
CallModel ==
    /\ fg_pc = "idle"
    /\ FgState("model", "none",
               [id |-> ModelReq, payload |-> <<>>, prefix |-> ModelPrefix],
               FirstPc, "send", NoMsg, NoResult, "none", status_format, FALSE, 0, FALSE)
    /\ UNCHANGED <<libVars, cls, keep_alive_period, kaVars, wireVars, closed, since_fg,
                   disc_called, ka_left>>
    /\ was_closed' = closed

\* The caller calls status_format().
CallStatusFormat ==
    /\ fg_pc = "idle"
    /\ FgState("status_format", "none",
               [id |-> FormatReq, payload |-> <<>>, prefix |-> FormatPrefix],
               FirstPc, "send", NoMsg, NoResult, "none", status_format, FALSE, 0, FALSE)
    /\ UNCHANGED <<libVars, cls, keep_alive_period, kaVars, wireVars, closed, since_fg,
                   disc_called, ka_left>>
    /\ was_closed' = closed

\* "not self._status_format": None and the empty byte string are both false.
NoCachedFormat == status_format = <<>> \/ status_format[1] = <<>>

\* The caller calls status(): lines 105-109.
CallStatus ==
    /\ fg_pc = "idle"
    /\ IF NoCachedFormat
       THEN FgState("status", "format",
                    [id |-> FormatReq, payload |-> <<>>, prefix |-> FormatPrefix],
                    FirstPc, "send", NoMsg, NoResult, "none", status_format, FALSE, 0, FALSE)
       ELSE FgState("status", "status",
                    [id |-> StatusReq, payload |-> <<>>, prefix |-> StatusPrefix],
                    FirstPc, "send", NoMsg, NoResult, "none", status_format, FALSE, 0, FALSE)
    /\ UNCHANGED <<libVars, cls, keep_alive_period, kaVars, wireVars, closed, since_fg,
                   disc_called, ka_left>>
    /\ was_closed' = closed

\* The caller calls disconnect().
CallDisconnect ==
    /\ fg_pc = "idle"
    /\ FgState("disconnect", "none", NoRq, FirstPc, "disc", NoMsg, NoResult, "none",
               status_format, FALSE, 0, FALSE)
    /\ disc_called' = TRUE
    /\ was_closed' = closed
    /\ UNCHANGED <<libVars, cls, keep_alive_period, kaVars, wireVars, closed, since_fg,
                   ka_left>>

\* The mutant of FgStop: disconnect() does not stop the thread.
FgStopNotOnDisconnect ==
    /\ fg_pc = "stop"
    /\ IF ka_thread = "none" \/ fg_io = "disc"
       THEN fg_pc' = "io" /\ UNCHANGED ka_stop
       ELSE fg_pc' = "join" /\ ka_stop' = TRUE
    /\ UNCHANGED <<libVars, cls, keep_alive_period, ka_thread, ka_pc, ka_timer, ka_orphans,
                   wireVars, closed, fg_api, fg_stage, rq, fg_io, fg_msg, fg_result,
                   fg_exc, status_format, rq_match, rq_sent, rq_dropped, ghostVars>>

\* stop_keep_alive, lines 409-411: a no-op without a thread, else the stop
\* event is set.
FgStop ==
    /\ fg_pc = "stop"
    /\ IF ka_thread = "none"
       THEN fg_pc' = "io" /\ UNCHANGED ka_stop
       ELSE fg_pc' = "join" /\ ka_stop' = TRUE
    /\ UNCHANGED <<libVars, cls, keep_alive_period, ka_thread, ka_pc, ka_timer, ka_orphans,
                   wireVars, closed, fg_api, fg_stage, rq, fg_io, fg_msg, fg_result,
                   fg_exc, status_format, rq_match, rq_sent, rq_dropped, ghostVars>>

\* The mutant of FgJoin: the thread is forgotten without waiting for its end.
FgJoinNoWait ==
    /\ fg_pc = "join"
    /\ ka_thread' = "none"
    /\ fg_pc' = "io"
    /\ UNCHANGED <<libVars, cls, keep_alive_period, ka_stop, ka_pc, ka_timer, ka_orphans,
                   wireVars, closed, fg_api, fg_stage, rq, fg_io, fg_msg, fg_result,
                   fg_exc, status_format, rq_match, rq_sent, rq_dropped, ghostVars>>

\* stop_keep_alive, lines 412-413: join() returns when the thread has ended.
FgJoin ==
    /\ fg_pc = "join"
    /\ ka_pc \notin KaAlive
    /\ ka_thread' = "none"
    /\ fg_pc' = "io"
    /\ UNCHANGED <<libVars, cls, keep_alive_period, ka_stop, ka_pc, ka_timer, ka_orphans,
                   wireVars, closed, fg_api, fg_stage, rq, fg_io, fg_msg, fg_result,
                   fg_exc, status_format, rq_match, rq_sent, rq_dropped, ghostVars>>

\* A foreground send or receive has ended without an exception.
IoDone == since_fg' = 0

\* The mutant of FgSendIO: the message is written although the session is
\* closed.
FgSendOnClosed ==
    /\ fg_pc = "io" /\ fg_io = "send"
    /\ peer_open
    /\ Len(out_q) < MaxQ
    /\ out_q' = Append(out_q, Msg(rq.id, rq.payload))
    /\ IF cls = "KeepAliveInverter"
       THEN /\ FgState(fg_api, fg_stage, rq, "start", fg_io, fg_msg, fg_result,
                       fg_exc, status_format, rq_match, rq_sent + 1, rq_dropped)
            /\ UNCHANGED since_fg
       ELSE /\ Return("send", NoMsg, rq_sent + 1)
            /\ IoDone
    /\ UNCHANGED <<libVars, cls, keep_alive_period, kaVars, in_q, peer_open, closed,
                   disc_called, was_closed, ka_left>>

\* Inverter.send, lines 165-168: the message is written to the socket.
FgSendIO ==
    /\ fg_pc = "io" /\ fg_io = "send"
    /\ ~closed /\ peer_open
    /\ Len(out_q) < MaxQ
    /\ out_q' = Append(out_q, Msg(rq.id, rq.payload))
    /\ IF cls = "KeepAliveInverter"
       THEN /\ FgState(fg_api, fg_stage, rq, "start", fg_io, fg_msg, fg_result,
                       fg_exc, status_format, rq_match, rq_sent + 1, rq_dropped)
            /\ UNCHANGED since_fg
       ELSE /\ Return("send", NoMsg, rq_sent + 1)
            /\ IoDone
    /\ UNCHANGED <<libVars, cls, keep_alive_period, kaVars, in_q, peer_open, closed,
                   disc_called, was_closed, ka_left>>

\* Inverter.send raises: ValueError on a closed file, BrokenPipeError when
\* the inverter has closed the connection.
FgSendFail ==
    /\ fg_pc = "io" /\ fg_io = "send"
    /\ closed \/ ~peer_open
    /\ Raise(IF closed THEN "ValueError" ELSE "BrokenPipeError")
    /\ UNCHANGED <<libVars, cls, keep_alive_period, kaVars, wireVars, closed, ghostVars>>

\* Inverter.receive, line 175: read_message returns the next message.
FgRecvIO ==
    /\ fg_pc = "io" /\ fg_io = "recv"
    /\ ~closed
    /\ in_q # <<>>
    /\ Head(in_q) # Garbled
    /\ in_q' = Tail(in_q)
    /\ IF cls = "KeepAliveInverter"
       THEN /\ FgState(fg_api, fg_stage, rq, "start", fg_io, Head(in_q), fg_result,
                       fg_exc, status_format, rq_match, rq_sent, rq_dropped)
            /\ UNCHANGED since_fg
       ELSE /\ Return("recv", Head(in_q), rq_sent)
            /\ IoDone
    /\ ka_left' = FALSE
    /\ UNCHANGED <<libVars, cls, keep_alive_period, kaVars, out_q, peer_open, closed,
                   disc_called, was_closed>>

\* Inverter.receive, line 175: read_message raises ValueError on bytes that
\* are not a message (lines 342-343, 350-351, 357-358).
FgRecvFraming ==
    /\ fg_pc = "io" /\ fg_io = "recv"
    /\ ~closed
    /\ in_q # <<>>
    /\ Head(in_q) = Garbled
    /\ in_q' = Tail(in_q)
    /\ Raise("ValueError")
    /\ ka_left' = FALSE
    /\ UNCHANGED <<libVars, cls, keep_alive_period, kaVars, out_q, peer_open, closed,
                   since_fg, disc_called, was_closed>>

\* The mutant of FgRecvFail: request() sends its message again when the
\* receive fails.
FgRecvFailRetry ==
    /\ fg_pc = "io" /\ fg_io = "recv"
    /\ closed \/ in_q = <<>>
    /\ IF fg_api \in {"send", "receive"}
       THEN Raise(IF closed THEN "ValueError"
                  ELSE IF ~peer_open THEN "InverterEOFError" ELSE "timeout")
       ELSE FgState(fg_api, fg_stage, rq, FirstPc, "send", NoMsg, fg_result,
                    "none", status_format, rq_match, rq_sent, rq_dropped)
    /\ UNCHANGED <<libVars, cls, keep_alive_period, kaVars, wireVars, closed, ghostVars>>

\* The mutant of FgRecvFail: the keep-alive thread is started again before
\* the exception leaves receive().
FgRecvFailRestart ==
    /\ fg_pc = "io" /\ fg_io = "recv"
    /\ closed \/ in_q = <<>>
    /\ Raise(IF closed THEN "ValueError"
             ELSE IF ~peer_open THEN "InverterEOFError" ELSE "timeout")
    /\ IF cls = "KeepAliveInverter" /\ ka_thread = "none"
       THEN /\ ka_stop' = FALSE
            /\ ka_thread' = "thread"
            /\ ka_pc' = "wait"
            /\ ka_timer' = 0
            /\ UNCHANGED ka_orphans
       ELSE UNCHANGED kaVars
    /\ UNCHANGED <<libVars, cls, keep_alive_period, wireVars, closed, ghostVars>>

\* Inverter.receive raises: ValueError on a closed file, InverterEOFError at
\* the end of the stream, socket.timeout when nothing arrives in time.
FgRecvFail ==
    /\ fg_pc = "io" /\ fg_io = "recv"
    /\ closed \/ in_q = <<>>
    /\ Raise(IF closed THEN "ValueError"
             ELSE IF ~peer_open THEN "InverterEOFError" ELSE "timeout")
    /\ UNCHANGED <<libVars, cls, keep_alive_period, kaVars, wireVars, closed, ghostVars>>

\* Inverter.disconnect, lines 59-70: shutdown (errors of a closed socket are
\* ignored), then the file and the socket are closed.
FgDisconnectIO ==
    /\ fg_pc = "io" /\ fg_io = "disc"
    /\ closed' = TRUE
    /\ Finish(NoResult)
    /\ UNCHANGED <<libVars, cls, keep_alive_period, kaVars, wireVars, ghostVars>>

\* The mutant of FgDisconnectFail: the error of a shutdown on a closed
\* socket is raised again as well.
FgDisconnectFailOnClosed ==
    /\ fg_pc = "io" /\ fg_io = "disc"
    /\ Raise("OSError")
    /\ UNCHANGED <<libVars, cls, keep_alive_period, kaVars, wireVars, closed, ghostVars>>

\* The mutant of FgDisconnectFail: the file and the socket are closed before
\* the error of the shutdown is raised again.
FgDisconnectCloses ==
    /\ fg_pc = "io" /\ fg_io = "disc"
    /\ ~closed
    /\ closed' = TRUE
    /\ Raise("OSError")
    /\ UNCHANGED <<libVars, cls, keep_alive_period, kaVars, wireVars, ghostVars>>

\* Inverter.disconnect, lines 61-68: shutdown fails with an OSError.  That
\* of a socket already closed or not connected (errno 9, 107, 10038) is
\* ignored; another one is raised again before anything is closed.
FgDisconnectFail ==
    /\ fg_pc = "io" /\ fg_io = "disc"
    /\ ~closed
    /\ Raise("OSError")
    /\ UNCHANGED <<libVars, cls, keep_alive_period, kaVars, wireVars, closed, ghostVars>>

\* The mutant of FgStart: receive() returns without starting the thread.
FgStartNotAfterReceive ==
    /\ fg_pc = "start"
    /\ ka_thread = "none"
    /\ IF fg_io = "recv"
       THEN UNCHANGED kaVars
       ELSE /\ ka_stop' = FALSE
            /\ ka_thread' = "thread"
            /\ ka_orphans' = ka_orphans + (IF ka_pc \in KaAlive THEN 1 ELSE 0)
            /\ ka_pc' = "wait"
            /\ ka_timer' = 0
    /\ Return(fg_io, fg_msg, rq_sent)
    /\ IoDone
    /\ UNCHANGED <<libVars, cls, keep_alive_period, wireVars, closed, disc_called,
                   was_closed, ka_left>>

\* The mutant of FgStart: the new thread goes on with the time already waited.
FgStartStaleTimer ==
    /\ fg_pc = "start"
    /\ ka_thread = "none"
    /\ ka_stop' = FALSE
    /\ ka_thread' = "thread"
    /\ ka_orphans' = ka_orphans + (IF ka_pc \in KaAlive THEN 1 ELSE 0)
    /\ ka_pc' = "wait"
    /\ ka_timer' = Min(since_fg, keep_alive_period)
    /\ Return(fg_io, fg_msg, rq_sent)
    /\ IoDone
    /\ UNCHANGED <<libVars, cls, keep_alive_period, wireVars, closed, disc_called,
                   was_closed, ka_left>>

\* start_keep_alive, lines 417-421, as the last statement of
\* KeepAliveInverter.send and receive: a new thread starts waiting.
FgStart ==
    /\ fg_pc = "start"
    /\ ka_thread = "none"
    /\ ka_stop' = FALSE
    /\ ka_thread' = "thread"
    /\ ka_orphans' = ka_orphans + (IF ka_pc \in KaAlive THEN 1 ELSE 0)
    /\ ka_pc' = "wait"
    /\ ka_timer' = 0
    /\ Return(fg_io, fg_msg, rq_sent)
    /\ IoDone
    /\ UNCHANGED <<libVars, cls, keep_alive_period, wireVars, closed, disc_called,
                   was_closed, ka_left>>

\* The caller closes the socket and the stream file of the session itself,
\* as test_disconnect_closed does before it calls disconnect().
CallerCloses ==
    /\ fg_pc = "idle"
    /\ ~closed
    /\ closed' = TRUE
    /\ UNCHANGED <<libVars, cls, keep_alive_period, kaVars, wireVars, fgVars, ghostVars>>

(***************************************************************************)
(* Background: the keep-alive thread (_ka_runner).                         *)
(***************************************************************************)
fgAll == <<fgVars, disc_called, was_closed, ka_left>>

\* The keep-alive exchange that reads the head of in_q leaves the response
\* to its request unread behind it: the head is another message and the
\* response comes next.
LeftBehind ==
    /\ ~StartsWith(Head(in_q).id, StatusPrefix)
    /\ Len(in_q) > 1
    /\ StartsWith(in_q[2].id, StatusPrefix)

\* The mutant of KaStopped: the thread takes the stop event for the end of
\* its wait and goes on with the next exchange.
KaStopIgnored ==
    /\ ka_pc = "wait"
    /\ ka_stop
    /\ ka_pc' = "send"
    /\ ka_timer' = 0
    /\ UNCHANGED <<libVars, cls, keep_alive_period, ka_thread, ka_stop, ka_orphans,
                   wireVars, closed, fgAll, since_fg>>

\* _ka_runner, lines 427-429: the wait ends because the stop event is set.
KaStopped ==
    /\ ka_pc = "wait"
    /\ ka_stop
    /\ ka_pc' = "exited"
    /\ ka_timer' = 0
    /\ UNCHANGED <<libVars, cls, keep_alive_period, ka_thread, ka_stop, ka_orphans,
                   wireVars, closed, fgAll, since_fg>>

\* _ka_runner, lines 427-430: the wait times out after keep_alive_period
\* without the stop event having been set.
KaTimeout ==
    /\ ka_pc = "wait"
    /\ ~ka_stop
    /\ ka_timer >= keep_alive_period
    /\ ka_pc' = "send"
    /\ ka_timer' = 0
    /\ UNCHANGED <<libVars, cls, keep_alive_period, ka_thread, ka_stop, ka_orphans,
                   wireVars, closed, fgAll, since_fg>>

\* keep_alive, line 436: the status request is sent with Inverter.send.
KaSend ==
    /\ ka_pc = "send"
    /\ ~closed /\ peer_open
    /\ Len(out_q) < MaxQ
    /\ out_q' = Append(out_q, Msg(StatusReq, <<>>))
    /\ ka_pc' = "recv"
    /\ UNCHANGED <<libVars, cls, keep_alive_period, ka_thread, ka_stop, ka_timer, ka_orphans,
                   in_q, peer_open, closed, fgAll, since_fg>>

\* The mutant of KaRecv: the thread ends after its first exchange.
KaRecvOnce ==
    /\ ka_pc = "recv"
    /\ ~closed
    /\ in_q # <<>>
    /\ in_q' = Tail(in_q)
    /\ ka_pc' = "exited"
    /\ ka_timer' = 0
    /\ ka_left' = LeftBehind
    /\ UNCHANGED <<libVars, cls, keep_alive_period, ka_thread, ka_stop, ka_orphans,
                   out_q, peer_open, closed, fgVars, disc_called, was_closed, since_fg>>

\* The mutant of KaRecv: messages are read until one answers the request.
KaRecvUntilAnswer ==
    /\ ka_pc = "recv"
    /\ ~closed
    /\ in_q # <<>>
    /\ Head(in_q) # Garbled
    /\ in_q' = Tail(in_q)
    /\ ka_pc' = IF StartsWith(Head(in_q).id, StatusPrefix) THEN "wait" ELSE "recv"
    /\ ka_timer' = 0
    /\ ka_left' = FALSE
    /\ UNCHANGED <<libVars, cls, keep_alive_period, ka_thread, ka_stop, ka_orphans,
                   out_q, peer_open, closed, fgVars, disc_called, was_closed, since_fg>>

\* keep_alive, line 438, and the loop of _ka_runner: one message is read with
\* Inverter.receive and dropped, then the thread waits again.
KaRecv ==
    /\ ka_pc = "recv"
    /\ ~closed
    /\ in_q # <<>>
    /\ Head(in_q) # Garbled
    /\ in_q' = Tail(in_q)
    /\ ka_pc' = "wait"
    /\ ka_timer' = 0
    /\ ka_left' = LeftBehind
    /\ UNCHANGED <<libVars, cls, keep_alive_period, ka_thread, ka_stop, ka_orphans,
                   out_q, peer_open, closed, fgVars, disc_called, was_closed, since_fg>>

\* keep_alive, line 438: read_message raises ValueError on bytes that are
\* not a message; the exception ends the thread.
KaRecvFraming ==
    /\ ka_pc = "recv"
    /\ ~closed
    /\ in_q # <<>>
    /\ Head(in_q) = Garbled
    /\ in_q' = Tail(in_q)
    /\ ka_pc' = "crashed"
    /\ ka_timer' = 0
    /\ ka_left' = FALSE
    /\ UNCHANGED <<libVars, cls, keep_alive_period, ka_thread, ka_stop, ka_orphans,
                   out_q, peer_open, closed, fgVars, disc_called, was_closed, since_fg>>

\* The mutant of KaFail: the thread goes on after a failed exchange.
KaFailGoesOn ==
    /\ \/ ka_pc = "send" /\ (closed \/ ~peer_open \/ Len(out_q) >= MaxQ)
       \/ ka_pc = "recv" /\ (closed \/ in_q = <<>>)
    /\ ka_pc' = "wait"
    /\ ka_timer' = 0
    /\ UNCHANGED <<libVars, cls, keep_alive_period, ka_thread, ka_stop, ka_orphans,
                   wireVars, closed, fgAll, since_fg>>

\* keep_alive raises (broken pipe on send, or the timeout of the socket when
\* the inverter takes no more bytes; end of stream or timeout on receive):
\* the exception ends the thread.
KaFail ==
    /\ \/ ka_pc = "send" /\ (closed \/ ~peer_open \/ Len(out_q) >= MaxQ)
       \/ ka_pc = "recv" /\ (closed \/ in_q = <<>>)
    /\ ka_pc' = "crashed"
    /\ ka_timer' = 0
    /\ UNCHANGED <<libVars, cls, keep_alive_period, ka_thread, ka_stop, ka_orphans,
                   wireVars, closed, fgAll, since_fg>>

\* One unit of time passes.
Tick ==
    /\ \/ ka_pc = "wait" /\ ka_timer < keep_alive_period
       \/ since_fg < MaxPeriod
    /\ ka_timer' = IF ka_pc = "wait" THEN Min(ka_timer + 1, keep_alive_period)
                   ELSE ka_timer
    /\ since_fg' = Min(since_fg + 1, MaxPeriod)
    /\ UNCHANGED <<libVars, cls, keep_alive_period, ka_thread, ka_stop, ka_pc, ka_orphans,
                   wireVars, closed, fgAll>>

(***************************************************************************)
(* The inverter.                                                           *)
(***************************************************************************)
\* The inverter handles the oldest request and answers it when it knows the
\* identifier, with a status format of F or a status payload of P.
InverterAnswer(F, P) ==
    /\ peer_open
    /\ out_q # <<>>
    /\ out_q' = Tail(out_q)
    /\ IF Responses(Head(out_q).id, F, P) = {}
       THEN UNCHANGED in_q
       ELSE /\ Len(in_q) < MaxQ
            /\ \E m \in Responses(Head(out_q).id, F, P) : in_q' = Append(in_q, m)
    /\ UNCHANGED <<libVars, cls, keep_alive_period, kaVars, peer_open, closed,
                   fgAll, since_fg>>

\* The inverter sends a message nobody asked for.
InverterUnsolicited ==
    /\ peer_open
    /\ Len(in_q) < MaxQ
    /\ \E m \in Unsolicited : in_q' = Append(in_q, m)
    /\ UNCHANGED <<libVars, cls, keep_alive_period, kaVars, out_q, peer_open, closed,
                   fgAll, since_fg>>

\* The inverter sends bytes that are not a message.
InverterGarbage ==
    /\ peer_open
    /\ Len(in_q) < MaxQ
    /\ in_q' = Append(in_q, Garbled)
    /\ UNCHANGED <<libVars, cls, keep_alive_period, kaVars, out_q, peer_open, closed,
                   fgAll, since_fg>>

\* The inverter closes the connection.
InverterClose ==
    /\ peer_open
    /\ peer_open' = FALSE
    /\ UNCHANGED <<libVars, cls, keep_alive_period, kaVars, out_q, in_q, closed,
                   fgAll, since_fg>>

(***************************************************************************)
(* Specifications.                                                         *)
(***************************************************************************)
\* The calls of the caller, with identifiers of ids and prefixes of prefixes.
Call(ids, prefixes) ==
    \/ \E id \in ids : CallSend(id, <<>>)
    \/ CallReceive
    \/ \E id \in ids, prefix \in prefixes : CallRequest(id, <<>>, prefix)
    \/ CallStatusFormat
    \/ CallStatus
    \/ CallDisconnect

\* A session of class Inverter: there is no keep-alive thread.
InitSession == Init /\ cls = "Inverter" /\ keep_alive_period = 0

NextSession ==
    \/ Call(RequestIds, RequestPrefixes)
    \/ FgSendIO
    \/ FgSendFail
    \/ FgRecvIO
    \/ FgRecvFail
    \/ FgDisconnectIO
    \/ FgDisconnectFail
    \/ InverterAnswer(Formats, StatusPayloads)
    \/ InverterUnsolicited
    \/ InverterClose

SpecSession == InitSession /\ [][NextSession]_vars

\* A session of class Inverter on an unreliable connection, with every public
\* method called: the inverter may send bytes that are not a message, and the
\* caller may close the socket and its file itself.  At most MaxInFlight
\* messages are on their way between the two ends.
FailFormats == {<<1, 12>>}
FailStatusPayloads == {<<0, 1, 0, 9>>}

NextFailure ==
    /\ \/ CallSend(StatusReq, <<>>)
       \/ CallReceive
       \/ CallRequest(StatusReq, <<>>, StatusPrefix)
       \/ CallModel
       \/ CallStatusFormat
       \/ CallStatus
       \/ CallDisconnect
       \/ CallerCloses
       \/ FgSendIO
       \/ FgSendFail
       \/ FgRecvIO
       \/ FgRecvFraming
       \/ FgRecvFail
       \/ FgDisconnectIO
       \/ FgDisconnectFail
       \/ InverterAnswer(FailFormats, FailStatusPayloads)
       \/ InverterUnsolicited
       \/ InverterGarbage
       \/ InverterClose
    /\ Len(out_q') + Len(in_q') <= MaxInFlight

SpecFailure == InitSession /\ [][NextFailure]_vars

\* A session of class KeepAliveInverter.
InitKeepAlive == Init /\ cls = "KeepAliveInverter"

NextKeepAlive ==
    \/ Call(KaRequestIds, KaRequestPrefixes)
    \/ FgStop
    \/ FgJoin
    \/ FgSendIO
    \/ FgSendFail
    \/ FgRecvIO
    \/ FgRecvFail
    \/ FgDisconnectIO
    \/ FgDisconnectFail
    \/ FgStart
    \/ KaStopped
    \/ KaTimeout
    \/ KaSend
    \/ KaRecv
    \/ KaFail
    \/ Tick
    \/ InverterAnswer(KaFormats, KaStatusPayloads)
    \/ InverterUnsolicited
    \/ InverterClose

Spec == InitKeepAlive /\ [][NextKeepAlive]_vars

\* The inverter sends a message nobody asked for when it has no request left
\* to answer.
InverterChatter ==
    /\ out_q = <<>>
    /\ InverterUnsolicited

\* A session of class KeepAliveInverter on an unreliable connection: the
\* inverter may send bytes that are not a message.  At most MaxInFlight
\* messages are on their way between the two ends.
NextKeepAliveFailure ==
    /\ \/ CallSend(FormatReq, <<>>)
       \/ CallReceive
       \/ CallStatus
       \/ CallDisconnect
       \/ FgStop
       \/ FgJoin
       \/ FgSendIO
       \/ FgSendFail
       \/ FgRecvIO
       \/ FgRecvFraming
       \/ FgRecvFail
       \/ FgDisconnectIO
       \/ FgDisconnectFail
       \/ FgStart
       \/ KaStopped
       \/ KaTimeout
       \/ KaSend
       \/ KaRecv
       \/ KaRecvFraming
       \/ KaFail
       \/ Tick
       \/ InverterAnswer(FailFormats, FailStatusPayloads)
       \/ InverterUnsolicited
       \/ InverterGarbage
       \/ InverterClose
    /\ Len(out_q') + Len(in_q') <= MaxInFlight

SpecKeepAliveFailure == InitKeepAlive /\ [][NextKeepAliveFailure]_vars

\* The steps the keep-alive thread takes by itself once its wait is over:
\* it sees the stop event, and its send and its receive end, with a result
\* or with an exception (the socket has a timeout).
KaRuns ==
    \/ KaStopped
    \/ KaSend
    \/ KaRecv
    \/ KaFail

\* A KeepAliveInverter whose caller sends, receives and disconnects, with an
\* inverter that answers, stays silent or closes the connection.  Both
\* threads are scheduled: the thread goes on whenever KaRuns is possible, the
\* caller goes on inside stop_keep_alive.
NextHandshake ==
    \/ CallSend(StatusReq, <<>>)
    \/ CallReceive
    \/ CallDisconnect
    \/ FgStop
    \/ FgJoin
    \/ FgSendIO
    \/ FgSendFail
    \/ FgRecvIO
    \/ FgRecvFail
    \/ FgDisconnectIO
    \/ FgDisconnectFail
    \/ FgStart
    \/ KaRuns
    \/ KaTimeout
    \/ Tick
    \/ InverterAnswer(KaFormats, KaStatusPayloads)
    \/ InverterClose

SpecHandshake ==
    /\ InitKeepAlive
    /\ [][NextHandshake]_vars
    /\ WF_vars(FgStop)
    /\ WF_vars(FgJoin)
    /\ WF_vars(KaRuns)

\* A KeepAliveInverter that is left alone by the caller, with an inverter
\* that answers every request: the scheduler runs the thread, time passes,
\* and the inverter handles the request it has received.
NextIdle ==
    \/ KaTimeout
    \/ KaSend
    \/ KaRecv
    \/ Tick
    \/ InverterAnswer(KaFormats, KaStatusPayloads)
    \/ InverterChatter

SpecIdle ==
    /\ InitKeepAlive
    /\ [][NextIdle]_vars
    /\ WF_vars(Tick)
    /\ WF_vars(KaTimeout)
    /\ WF_vars(KaSend)
    /\ WF_vars(KaRecv)
    /\ WF_vars(InverterAnswer(KaFormats, KaStatusPayloads))

(***************************************************************************)
(* The status descriptors on their own: one get_value call on a descriptor *)
(* with a status format and a status payload.                              *)
(***************************************************************************)
\* The descriptors get_value is called on: the ones of the static table, and
\* descriptors of the classes the table wraps or does not use.
DecDescriptors ==
    {status_types[i].type : i \in 1..Len(status_types)}
    \cup {BytesStatusType(<<1>>), BytesStatusType(<<12, 1>>),
          BytesStatusType(<<3, 4>>), BytesStatusType(<<2, 1>>),
          IntStatusType(<<1>>, TRUE), IntStatusType(<<12, 0>>, FALSE),
          IntStatusType(<<1, 12>>, TRUE),
          DecimalStatusType(<<53, 54>>, -1, FALSE), DecimalStatusType(<<55>>, 0, FALSE),
          DecimalStatusType(<<1>>, 1, TRUE),
          OneOfStatusType(<<IntStatusType(<<3>>, FALSE), IntStatusType(<<1>>, FALSE)>>),
          IfPresentStatusType(12, TRUE, IntStatusType(<<1>>, FALSE)),
          IfPresentStatusType(12, FALSE, IntStatusType(<<1>>, FALSE))}

\* The format and the payload of the tests of the descriptors.
ReferenceFormat ==
    <<0, 1, 2, 4, 5, 9, 10, 12, 17, 23, 24, 27, 28, 29, 30, 31, 32, 33, 34, 39, 40,
      49, 50, 51, 52, 53, 54>>
ReferencePayload ==
    <<1, 119, 11, 172, 11, 225, 0, 21, 0, 20, 0, 0, 40, 64, 0, 1, 1, 218,
      0, 0, 0, 0, 0, 0, 0, 0, 0, 0, 0, 0, 0, 0, 0, 0, 0, 0, 0, 0,
      2, 140, 2, 118, 0, 56, 9, 27, 19, 134, 4, 251, 0, 1, 177, 204>>

DecFormats ==
    {<<>>, <<3>>, <<12>>, <<1, 12>>, <<1, 3>>, <<0, 12, 1>>, <<81, 50, 49, 51>>,
     <<12, 50, 82>>, <<12, 81, 50, 82>>, ReferenceFormat}
DecPayloads ==
    {<<>>, <<200>>, <<0, 1>>, <<0, 5, 1>>, <<1, 119, 0, 3>>, <<255, 255, 0, 9>>,
     <<128, 0, 0, 0>>, <<0, 1, 9, 6, 9, 16>>, ReferencePayload}
    \cup {<<0, n>> : n \in {0, 2, 3, 4, 5, 6}}

\* All type IDs a descriptor looks up in the format.
RECURSIVE IdsOfAll(_)
IdsOf(d) ==
    {d.ids[k] : k \in 1..Len(d.ids)} \cup IdsOfAll(d.sub)
IdsOfAll(subs) ==
    IF subs = <<>> THEN {}
    ELSE {Head(subs).ids[k] : k \in 1..Len(Head(subs).ids)} \cup IdsOfAll(Tail(subs))

InitDecode ==
    /\ InitObject /\ cls = "Inverter" /\ keep_alive_period = 0
    /\ dec_type \in DecDescriptors
    /\ dec_format \in DecFormats
    /\ dec_payload \in DecPayloads
    /\ dec_value = PendingVal
    /\ dec_status = PendingStatus
    /\ CodecIdle
    /\ FinderIdle
    /\ UtilIdle

\* type_def.get_value(status_format, status_payload) returns or raises.
GetValueCall ==
    /\ dec_value = PendingVal
    /\ dec_value' = GetValue(dec_type, dec_format, dec_payload)
    /\ UNCHANGED <<cls, keep_alive_period, kaVars, wireVars, closed, fgVars,
                   ghostVars, dec_type, dec_format, dec_payload, dec_status,
                   codecVars, finderVars, utilVars>>

\* Inverter.status, lines 116-122, on the same format and payload: the loop
\* over status_types returns the mapping or raises.
StatusDecode ==
    /\ dec_status = PendingStatus
    /\ dec_status' = DecodeStatus(dec_format, dec_payload)
    /\ UNCHANGED <<cls, keep_alive_period, kaVars, wireVars, closed, fgVars,
                   ghostVars, dec_type, dec_format, dec_payload, dec_value,
                   codecVars, finderVars, utilVars>>

NextDecode ==
    \/ GetValueCall
    \/ StatusDecode

SpecDecode == InitDecode /\ [][NextDecode]_vars

(***************************************************************************)
(* connect_inverters (inverterutil.py, lines 30-44) and its sessions.  A   *)
(* session is a record [closed, thread, format, pc, used]: format is the   *)
(* instance attribute _status_format (<<>> when the instance has none),    *)
(* pc the position of a status() call, used the format the last status()   *)
(* decoded with (<<>> before the first).                                   *)
(***************************************************************************)
\* The status formats of the inverters.
DevFormats == {<<>>, <<12>>, <<1, 12>>}

InitConnect ==
    /\ InitObject /\ cls = "KeepAliveInverter" /\ keep_alive_period = 0
    /\ DecodeIdle
    /\ CodecIdle
    /\ FinderIdle
    /\ class_format = <<>>
    /\ dev_format \in [1..MaxInverters -> DevFormats]
    /\ objs = <<>>
    /\ ci_pc = "idle"
    /\ ci_n = 0
    /\ ci_k = 0
    /\ ci_exc = "none"

notUtilVars ==
    <<cls, keep_alive_period, kaVars, wireVars, closed, fgVars, ghostVars,
      decodeVars, codecVars, finderVars>>

\* KeepAliveInverter(*finder.find_inverter()): the constructor has started
\* the keep-alive thread, and the instance has no _status_format of its own.
NewSession ==
    [closed |-> FALSE, thread |-> TRUE, format |-> <<>>, pc |-> "idle", used |-> <<>>]

\* self._status_format: the attribute of the instance, else that of the class.
Lookup(i) == IF objs[i].format # <<>> THEN objs[i].format ELSE class_format

\* connect_inverters(n=n) is called: line 37 opens the finder.
CiCall(n) ==
    /\ ci_pc = "idle"
    /\ ci_pc' = "find"
    /\ ci_n' = n
    /\ UNCHANGED <<notUtilVars, class_format, dev_format, objs, ci_k, ci_exc>>

\* Line 38: find_inverter returns a connection, a session is constructed on
\* it; after the last one the finder is closed and the list is yielded.
CiFind ==
    /\ ci_pc = "find"
    /\ objs' = Append(objs, NewSession)
    /\ ci_pc' = IF Len(objs) + 1 = ci_n THEN "body" ELSE "find"
    /\ UNCHANGED <<notUtilVars, class_format, dev_format, ci_n, ci_k, ci_exc>>

\* Line 38: find_inverter raises; the with statement of the caller is never
\* entered.
CiFindFail ==
    /\ ci_pc = "find"
    /\ ci_pc' = "failed"
    /\ ci_exc' = "InverterNotFoundError"
    /\ UNCHANGED <<notUtilVars, class_format, dev_format, objs, ci_n, ci_k>>

\* The mutant of ObjStatusBegin: the format is cached on the class.
ObjStatusBeginShared(i) ==
    /\ ci_pc = "body"
    /\ i \in 1..Len(objs)
    /\ ~objs[i].closed
    /\ objs[i].pc = "idle"
    /\ IF Lookup(i) = <<>> \/ Lookup(i)[1] = <<>>
       THEN /\ class_format' = <<dev_format[i]>>
            /\ objs' = [objs EXCEPT ![i].pc = "status"]
       ELSE /\ objs' = [objs EXCEPT ![i].pc = "status"]
            /\ UNCHANGED class_format
    /\ UNCHANGED <<notUtilVars, dev_format, ci_pc, ci_n, ci_k, ci_exc>>

\* status() of session i in the body, lines 105-107 of inverter.py: without
\* a cached format, the format of the inverter is requested and assigned to
\* self._status_format.
ObjStatusBegin(i) ==
    /\ ci_pc = "body"
    /\ i \in 1..Len(objs)
    /\ ~objs[i].closed
    /\ objs[i].pc = "idle"
    /\ IF Lookup(i) = <<>> \/ Lookup(i)[1] = <<>>
       THEN objs' = [objs EXCEPT ![i].pc = "status", ![i].format = <<dev_format[i]>>]
       ELSE objs' = [objs EXCEPT ![i].pc = "status"]
    /\ UNCHANGED <<notUtilVars, class_format, dev_format, ci_pc, ci_n, ci_k, ci_exc>>

\* status() of session i, lines 109-122: the payload is decoded with
\* self._status_format.
ObjStatusEnd(i) ==
    /\ ci_pc = "body"
    /\ i \in 1..Len(objs)
    /\ objs[i].pc = "status"
    /\ objs' = [objs EXCEPT ![i].pc = "idle", ![i].used = Lookup(i)]
    /\ UNCHANGED <<notUtilVars, class_format, dev_format, ci_pc, ci_n, ci_k, ci_exc>>

\* The body of the with statement ends: it completes or raises.
CiBodyEnd(raises) ==
    /\ ci_pc = "body"
    /\ ci_pc' = IF objs = <<>> THEN "exited" ELSE "finally"
    /\ ci_exc' = IF raises THEN "Exception" ELSE "none"
    /\ objs' = [i \in 1..Len(objs) |-> [objs[i] EXCEPT !.pc = "idle"]]
    /\ UNCHANGED <<notUtilVars, class_format, dev_format, ci_n, ci_k>>

\* Lines 42-44: i.disconnect() of the next session returns: the thread is
\* stopped, the socket and its file are closed.
CiDisconnect ==
    /\ ci_pc = "finally"
    /\ objs' = [objs EXCEPT ![ci_k + 1].closed = TRUE, ![ci_k + 1].thread = FALSE]
    /\ ci_k' = ci_k + 1
    /\ ci_pc' = IF ci_k + 1 = Len(objs) THEN "exited" ELSE "finally"
    /\ UNCHANGED <<notUtilVars, class_format, dev_format, ci_n, ci_exc>>

\* Lines 42-44: i.disconnect() raises the OSError of shutdown (inverter.py
\* 67-68) after it has stopped the thread; the exception leaves the loop.
CiDisconnectFail ==
    /\ ci_pc = "finally"
    /\ objs' = [objs EXCEPT ![ci_k + 1].thread = FALSE]
    /\ ci_pc' = "exited"
    /\ ci_exc' = "OSError"
    /\ UNCHANGED <<notUtilVars, class_format, dev_format, ci_n, ci_k>>

NextConnect ==
    \/ \E n \in 1..MaxInverters : CiCall(n)
    \/ CiFind
    \/ CiFindFail
    \/ \E i \in 1..MaxInverters : ObjStatusBegin(i)
    \/ \E i \in 1..MaxInverters : ObjStatusEnd(i)
    \/ \E raises \in BOOLEAN : CiBodyEnd(raises)
    \/ CiDisconnect
    \/ CiDisconnectFail

SpecConnect == InitConnect /\ [][NextConnect]_vars

(***************************************************************************)
(* The codec on its own: a peer writes frames to a byte stream, the bytes  *)
(* arrive in chunks, and read_message is called on the stream.             *)
(***************************************************************************)
CodecIds == {<<0, 1, 2>>, <<1, 130, 0>>}
\* 256 bytes whose message still has a sum below 65536, and 256 bytes whose
\* message has not.
BigPayload == [i \in 1..256 |-> IF i = 256 THEN 0 ELSE 255]
OverflowPayload == [i \in 1..256 |-> 255]
SmallPayloads == {<<>>, <<7>>, <<16, 16>>}
CodecPayloads == SmallPayloads \cup {BigPayload, OverflowPayload}

\* What construct_message(identifier, payload) gives the peer to write:
\* nothing when it raises.
BuiltFrame(identifier, payload) ==
    LET built == construct_message(identifier, payload)
    IN  [kind |-> IF built.exc = "none" THEN "built" ELSE built.exc,
         identifier |-> identifier, payload |-> payload, bytes |-> built.bytes]

\* A built message with the payload byte at pos changed to val.
CorruptFrame(identifier, payload, pos, val) ==
    LET bytes == construct_message(identifier, payload).bytes
    IN  [kind |-> "corrupt", identifier |-> identifier, payload |-> payload,
         bytes |-> [i \in 1..Len(bytes) |-> IF i = 7 + pos THEN val ELSE bytes[i]]]

\* Bytes that were not made by construct_message.
RawFrame(bytes) ==
    [kind |-> "raw", identifier |-> <<>>, payload |-> <<>>, bytes |-> bytes]

BuiltFrames == {BuiltFrame(id, p) : id \in CodecIds, p \in CodecPayloads}
CorruptPositions(payload) ==
    IF Len(payload) <= 2 THEN 1..Len(payload) ELSE {1, Len(payload)}
CorruptFrames ==
    UNION {UNION {{CorruptFrame(id, p, pos, val) : val \in (0..255) \ {p[pos]}} :
                  pos \in CorruptPositions(p)} :
           id \in CodecIds, p \in {<<7>>, <<16, 16>>, BigPayload}}
RawFrames ==
    {RawFrame(b) : b \in {<<>>, <<85>>, <<0, 0>>, <<85, 171, 0>>, <<170, 85>>,
                          <<85, 170, 0, 1, 2, 16, 1>>,
                          <<85, 170, 0, 1, 2, 16, 0, 9>>,
                          <<85, 170, 0, 1, 2, 0, 0, 1>>}}
\* The first n bytes of the message of identifier and payload as the inverter
\* writes it, with the sum modulo 65536 as its checksum: the stream ends
\* inside the message.
CutFrame(identifier, payload, n) ==
    LET body == <<85, 170>> \o identifier
                    \o <<Len(payload) \div 256, Len(payload) % 256>> \o payload
        sum == Sum(body) % 65536
    IN  [kind |-> "cut", identifier |-> identifier, payload |-> payload,
         bytes |-> Slice(body \o <<sum \div 256, sum % 256>>, 0, n)]
CutFrames ==
    {CutFrame(id, <<16, 16>>, n) : id \in CodecIds, n \in 1..10}
    \cup {CutFrame(id, OverflowPayload, n) : id \in CodecIds, n \in {200, 263, 264}}

\* The frames that may follow a first frame.
SecondFrames == {BuiltFrame(id, p) : id \in CodecIds, p \in {<<>>, <<16, 16>>}}
                \cup {RawFrame(<<0, 0>>)}

Streams ==
    {<<f>> : f \in BuiltFrames \cup CorruptFrames \cup RawFrames \cup CutFrames}
    \cup {<<f, g>> : f \in {h \in BuiltFrames : Len(h.payload) <= 2},
                     g \in SecondFrames}

InitCodec ==
    /\ InitObject /\ cls = "Inverter" /\ keep_alive_period = 0
    /\ DecodeIdle
    /\ FinderIdle
    /\ UtilIdle
    /\ frames \in Streams
    /\ written = Join([k \in 1..Len(frames) |-> frames[k].bytes])
    /\ stream_src = written
    /\ stream_eof = FALSE
    /\ stream_buf = <<>>
    /\ rm_pc = "idle"
    /\ rm_at = 0
    /\ rm_from = 0
    /\ rm_start = <<>>
    /\ rm_identifier = <<>>
    /\ rm_size_bytes = <<>>
    /\ rm_payload = <<>>
    /\ rm_results = <<>>

objectVars == <<cls, keep_alive_period, kaVars, wireVars, closed, fgVars, ghostVars,
                utilVars>>

\* The next bytes in transit arrive: one byte, or all of them at once.
Arrive ==
    /\ stream_src # <<>>
    /\ \E k \in {Len(stream_src)} \cup (IF Len(written) <= MaxChop THEN {1} ELSE {}) :
          /\ stream_buf' = stream_buf \o SubSeq(stream_src, 1, k)
          /\ stream_src' = SubSeq(stream_src, k + 1, Len(stream_src))
    /\ UNCHANGED <<objectVars, decodeVars, finderVars, frames, written, stream_eof, rm_pc, rm_at,
                   rm_from, rmLocals, rm_results>>

\* The peer closes its end of the stream.
PeerClose ==
    /\ ~stream_eof
    /\ stream_eof' = TRUE
    /\ UNCHANGED <<objectVars, decodeVars, finderVars, frames, written, stream_src, stream_buf,
                   rm_pc, rm_at, rm_from, rmLocals, rm_results>>

\* The stream has ended: nothing more will arrive.
AtEOF == stream_eof /\ stream_src = <<>>

\* The mutant of CanRead: a read returns as soon as any byte has arrived.
CanReadSome(n) == Len(stream_buf) >= Min(n, 1) \/ AtEOF

\* stream.read(n) of a buffered binary stream returns once n bytes have
\* arrived or the stream has ended.
CanRead(n) == Len(stream_buf) >= n \/ AtEOF

\* The bytes stream.read(n) returns, and its effect on the stream.
ReadBytes(n) == Slice(stream_buf, 0, n)
StreamRead(n) ==
    /\ stream_buf' = SubSeq(stream_buf, Len(ReadBytes(n)) + 1, Len(stream_buf))
    /\ rm_at' = rm_at + Len(ReadBytes(n))

\* read_message is called on the stream.
CallReadMessage ==
    /\ rm_pc = "idle"
    /\ Len(rm_results) < MaxReads
    /\ rm_pc' = "start"
    /\ rm_from' = rm_at
    /\ rm_start' = <<>> /\ rm_identifier' = <<>>
    /\ rm_size_bytes' = <<>> /\ rm_payload' = <<>>
    /\ UNCHANGED <<objectVars, decodeVars, finderVars, frames, written, stream_src, stream_eof,
                   stream_buf, rm_at, rm_results>>

\* read_message ends: it raises exc, or returns (identifier, payload) when
\* exc is "none".
RmEnd(exc, identifier, payload) ==
    /\ rm_pc' = "idle"
    /\ rm_results' = Append(rm_results,
           [exc |-> exc, identifier |-> identifier, payload |-> payload,
            from |-> rm_from, to |-> rm_at'])
    /\ UNCHANGED <<rm_from, rmLocals>>

\* Lines 339-343: start = stream.read(2).
RmStart ==
    /\ rm_pc = "start"
    /\ CanRead(2)
    /\ StreamRead(2)
    /\ LET start == ReadBytes(2)
       IN  IF start = <<>> THEN RmEnd("InverterEOFError", <<>>, <<>>)
           ELSE IF start # <<85, 170>>
           THEN RmEnd("ValueError: Invalid start of message", <<>>, <<>>)
           ELSE /\ rm_pc' = "identifier"
                /\ rm_start' = start
                /\ UNCHANGED <<rm_from, rm_identifier, rm_size_bytes, rm_payload,
                               rm_results>>
    /\ UNCHANGED <<objectVars, decodeVars, finderVars, frames, written, stream_src, stream_eof>>

\* Line 346: identifier = stream.read(3).
RmIdentifier ==
    /\ rm_pc = "identifier"
    /\ CanRead(3)
    /\ StreamRead(3)
    /\ rm_pc' = "size"
    /\ rm_identifier' = ReadBytes(3)
    /\ UNCHANGED <<objectVars, decodeVars, finderVars, frames, written, stream_src, stream_eof,
                   rm_from, rm_start, rm_size_bytes, rm_payload, rm_results>>

\* Lines 349-352: payload_size_bytes = stream.read(2) and the sanity check.
RmPayloadSize ==
    /\ rm_pc = "size"
    /\ CanRead(2)
    /\ StreamRead(2)
    /\ LET payload_size_bytes == ReadBytes(2)
           payload_size == FromBytes(payload_size_bytes, FALSE)
       IN  IF PayloadSizeUnexpected(payload_size)
           THEN RmEnd("ValueError: Unexpected payload size value", <<>>, <<>>)
           ELSE /\ rm_pc' = "payload"
                /\ rm_size_bytes' = payload_size_bytes
                /\ UNCHANGED <<rm_from, rm_start, rm_identifier, rm_payload,
                               rm_results>>
    /\ UNCHANGED <<objectVars, decodeVars, finderVars, frames, written, stream_src, stream_eof>>

\* Line 353: payload = stream.read(payload_size).
RmPayload ==
    /\ rm_pc = "payload"
    /\ LET payload_size == FromBytes(rm_size_bytes, FALSE)
       IN  /\ CanRead(payload_size)
           /\ StreamRead(payload_size)
           /\ rm_payload' = ReadBytes(payload_size)
    /\ rm_pc' = "checksum"
    /\ UNCHANGED <<objectVars, decodeVars, finderVars, frames, written, stream_src, stream_eof,
                   rm_from, rm_start, rm_identifier, rm_size_bytes, rm_results>>

\* Lines 356-361: checksum = stream.read(2), compared with the checksum of
\* the bytes read before it.
RmChecksum ==
    /\ rm_pc = "checksum"
    /\ CanRead(2)
    /\ StreamRead(2)
    /\ LET checksum == ReadBytes(2)
           message == rm_start \o rm_identifier \o rm_size_bytes \o rm_payload
           expected == calculate_checksum(message)
       IN  IF expected.exc # "none" THEN RmEnd(expected.exc, <<>>, <<>>)
           ELSE IF checksum # expected.bytes
           THEN RmEnd("ValueError: Checksum invalid", <<>>, <<>>)
           ELSE RmEnd("none", rm_identifier, rm_payload)
    /\ UNCHANGED <<objectVars, decodeVars, finderVars, frames, written, stream_src, stream_eof>>

NextCodec ==
    \/ Arrive
    \/ PeerClose
    \/ CallReadMessage
    \/ RmStart
    \/ RmIdentifier
    \/ RmPayloadSize
    \/ RmPayload
    \/ RmChecksum

SpecCodec == InitCodec /\ [][NextCodec]_vars

(***************************************************************************)
(* The InverterFinder (inverter.py, lines 178-299): one finder, the port   *)
(* it binds, another listener that may hold the port, and an inverter that *)
(* may connect.                                                            *)
(***************************************************************************)
envVars == <<port_held, pending>>
callVars == <<f_api, f_pc, f_exc, f_result>>
owrVars == <<f_retries, f_tries, f_attempts, f_sleeps>>
findVars == <<f_advertisements, f_interval, f_round, f_broadcasts, f_wait, bc>>
notFinderVars == <<objectVars, decodeVars, codecVars>>

\* errno of 'address already in use', and its Windows variant (line 252).
AddrInUse == {98, 10048}
\* errno of another failure of socket creation, bind or listen.
OtherErrnos == {13}

InitFinder ==
    /\ InitObject /\ cls = "Inverter" /\ keep_alive_period = 0
    /\ DecodeIdle
    /\ CodecIdle
    /\ UtilIdle
    /\ \E held \in BOOLEAN : FinderInit(held)

\* The call in progress ends: it raises exc, or returns result when exc is
\* NoExc.
FEnd(exc, result) ==
    /\ f_pc' = "idle"
    /\ f_exc' = exc
    /\ f_result' = result
    /\ UNCHANGED f_api

\* What open() can do (lines 209-233): RuntimeError when the socket exists,
\* else an OSError of socket creation, bind or listen, 'address in use' being
\* the one of a port that is held, else the finder is listening.
OpenOutcomes ==
    IF listen_sock # "none" THEN {Exc("RuntimeError")}
    ELSE {OSError(e) : e \in OtherErrnos}
         \cup (IF port_held THEN {OSError(e) : e \in AddrInUse} ELSE {NoExc})

\* The mutant of OpenEffect: a socket whose bind or listen has failed is
\* neither closed nor forgotten.
OpenEffectNoCleanup(outcome) ==
    /\ listen_sock' = IF outcome = NoExc \/ outcome.exc = "OSError" THEN "listening"
                      ELSE listen_sock
    /\ f_socks' = IF outcome = NoExc \/ outcome.exc = "OSError" THEN f_socks + 1
                  ELSE f_socks

\* listen_sock after open() has ended with outcome: lines 214, 223 and 232.
\* A socket whose bind or listen fails is closed (line 231), one that could
\* not be created does not exist.
OpenEffect(outcome) ==
    /\ listen_sock' = IF outcome = NoExc THEN "listening"
                      ELSE IF outcome.exc = "OSError" THEN "none"
                      ELSE listen_sock
    /\ f_socks' = IF outcome = NoExc THEN f_socks + 1 ELSE f_socks

\* The caller calls open_with_retries(retries, period).
CallOpenWithRetries(retries) ==
    /\ f_pc = "idle"
    /\ f_api' = "open_with_retries"
    /\ f_pc' = "open"
    /\ f_exc' = NoExc
    /\ f_result' = "none"
    /\ f_retries' = retries
    /\ f_tries' = 0
    /\ f_attempts' = <<>>
    /\ f_sleeps' = 0
    /\ UNCHANGED <<notFinderVars, listen_sock, f_socks, envVars, findVars>>

\* The mutant of Retryable: every OSError is retried.
RetryableAny(errno) == TRUE

\* Line 252: the errors open_with_retries retries.
Retryable(errno) == errno \in AddrInUse

\* The mutant of BudgetExhausted: one more try is made.
BudgetExhaustedLate(tries, retries) == tries > retries

\* Line 257: the check for the maximum number of retries.
BudgetExhausted(tries, retries) == tries >= retries

\* Lines 247-259: one pass of the loop of open_with_retries, up to the
\* return, the raise or the sleep.
OpenAttempt ==
    /\ f_api = "open_with_retries"
    /\ f_pc = "open"
    /\ \E outcome \in OpenOutcomes :
          /\ OpenEffect(outcome)
          /\ f_attempts' = Append(f_attempts, outcome)
          /\ IF outcome = NoExc
             THEN FEnd(NoExc, "none") /\ UNCHANGED <<f_tries, f_sleeps>>
             ELSE IF outcome.exc # "OSError" \/ ~Retryable(outcome.errno)
             THEN FEnd(outcome, "none") /\ UNCHANGED <<f_tries, f_sleeps>>
             ELSE /\ f_tries' = f_tries + 1
                  /\ IF BudgetExhausted(f_tries + 1, f_retries)
                     THEN FEnd(outcome, "none") /\ UNCHANGED f_sleeps
                     ELSE /\ f_pc' = "sleep"
                          /\ f_sleeps' = f_sleeps + 1
                          /\ UNCHANGED <<f_api, f_exc, f_result>>
    /\ UNCHANGED <<notFinderVars, envVars, f_retries, findVars>>

\* Line 259: sleep(period) returns.
SleepDone ==
    /\ f_pc = "sleep"
    /\ f_pc' = "open"
    /\ UNCHANGED <<notFinderVars, listen_sock, f_socks, envVars, f_api, f_exc, f_result,
                   owrVars, findVars>>

\* The other listener releases the port.
PortRelease ==
    /\ port_held
    /\ port_held' = FALSE
    /\ UNCHANGED <<notFinderVars, listen_sock, f_socks, pending, callVars, owrVars, findVars>>

\* The caller calls close() (lines 264-265); listen_sock.close() on None is
\* an AttributeError.
CallClose ==
    /\ f_pc = "idle"
    /\ f_api' = "close"
    /\ f_pc' = "idle"
    /\ f_result' = "none"
    /\ IF listen_sock = "none"
       THEN f_exc' = Exc("AttributeError") /\ UNCHANGED <<listen_sock, f_socks, pending>>
       ELSE f_exc' = NoExc /\ listen_sock' = "none" /\ f_socks' = f_socks - 1
            /\ pending' = 0
    /\ UNCHANGED <<notFinderVars, port_held, owrVars, findVars>>

\* The caller calls find_inverter(advertisements, interval): lines 283-288.
\* settimeout on a listen_sock of None is an AttributeError.
CallFindInverter(advertisements, interval) ==
    /\ f_pc = "idle"
    /\ f_api' = "find_inverter"
    /\ f_result' = "none"
    /\ f_advertisements' = advertisements
    /\ f_interval' = interval
    /\ f_round' = 0
    /\ f_broadcasts' = 0
    /\ f_wait' = 0
    /\ IF listen_sock = "none"
       THEN f_pc' = "idle" /\ f_exc' = Exc("AttributeError") /\ bc' = "none"
       ELSE f_pc' = "broadcast" /\ f_exc' = NoExc /\ bc' = "open"
    /\ UNCHANGED <<notFinderVars, listen_sock, f_socks, envVars, owrVars>>

\* Lines 290-292: the discovery message is broadcast.
FindBroadcast ==
    /\ f_pc = "broadcast"
    /\ f_round < f_advertisements
    /\ f_broadcasts' = f_broadcasts + 1
    /\ f_pc' = "accept"
    /\ f_wait' = 0
    /\ UNCHANGED <<notFinderVars, listen_sock, f_socks, envVars, f_api, f_exc, f_result,
                   owrVars, f_advertisements, f_interval, f_round, bc>>

\* Line 292: sendto raises; the with statement closes the broadcast socket.
FindBroadcastFail ==
    /\ f_pc = "broadcast"
    /\ f_round < f_advertisements
    /\ \E e \in OtherErrnos : FEnd(OSError(e), "none")
    /\ bc' = "closed"
    /\ UNCHANGED <<notFinderVars, listen_sock, f_socks, envVars, owrVars, f_advertisements,
                   f_interval, f_round, f_broadcasts, f_wait>>

\* Lines 290 and 299: the loop has made all its rounds.
FindNotFound ==
    /\ f_pc = "broadcast"
    /\ f_round >= f_advertisements
    /\ FEnd(Exc("InverterNotFoundError"), "none")
    /\ bc' = "closed"
    /\ UNCHANGED <<notFinderVars, listen_sock, f_socks, envVars, owrVars, f_advertisements,
                   f_interval, f_round, f_broadcasts, f_wait>>

\* The mutant of FindAccept: the connection is kept and the loop goes on.
FindAcceptGoesOn ==
    /\ f_pc = "accept"
    /\ pending > 0
    /\ pending' = pending - 1
    /\ f_result' = "sock"
    /\ f_round' = f_round + 1
    /\ f_pc' = "broadcast"
    /\ UNCHANGED <<notFinderVars, listen_sock, f_socks, port_held, f_api, f_exc, owrVars,
                   f_advertisements, f_interval, f_broadcasts, f_wait, bc>>

\* Lines 294-296: accept() returns a connection, which find_inverter returns.
FindAccept ==
    /\ f_pc = "accept"
    /\ pending > 0
    /\ pending' = pending - 1
    /\ FEnd(NoExc, "sock")
    /\ bc' = "closed"
    /\ UNCHANGED <<notFinderVars, listen_sock, f_socks, port_held, owrVars, f_advertisements,
                   f_interval, f_round, f_broadcasts, f_wait>>

\* Lines 297-298: accept() times out after interval.
FindAcceptTimeout ==
    /\ f_pc = "accept"
    /\ pending = 0
    /\ f_wait >= f_interval
    /\ f_round' = f_round + 1
    /\ f_pc' = "broadcast"
    /\ UNCHANGED <<notFinderVars, listen_sock, f_socks, envVars, f_api, f_exc, f_result,
                   owrVars, f_advertisements, f_interval, f_broadcasts, f_wait, bc>>

\* Time passes while accept() waits.
FinderTick ==
    /\ f_pc = "accept"
    /\ f_wait < f_interval
    /\ f_wait' = f_wait + 1
    /\ UNCHANGED <<notFinderVars, listen_sock, f_socks, envVars, callVars, owrVars,
                   f_advertisements, f_interval, f_round, f_broadcasts, bc>>

\* An inverter connects to the listening port.
InverterConnect ==
    /\ listen_sock = "listening"
    /\ pending < MaxPending
    /\ pending' = pending + 1
    /\ UNCHANGED <<notFinderVars, listen_sock, f_socks, port_held, callVars, owrVars, findVars>>

FindSend == FindBroadcast \/ FindBroadcastFail

NextFinder ==
    \/ \E retries \in 0..MaxRetries : CallOpenWithRetries(retries)
    \/ OpenAttempt
    \/ SleepDone
    \/ PortRelease
    \/ CallClose
    \/ \E advertisements \in 0..MaxAdvertisements, interval \in 1..MaxInterval :
          CallFindInverter(advertisements, interval)
    \/ FindBroadcast
    \/ FindBroadcastFail
    \/ FindNotFound
    \/ FindAccept
    \/ FindAcceptTimeout
    \/ FinderTick
    \/ InverterConnect

\* The thread of the caller runs, sleeps end and time passes.
SpecFinder ==
    /\ InitFinder
    /\ [][NextFinder]_vars
    /\ WF_vars(OpenAttempt)
    /\ WF_vars(SleepDone)
    /\ WF_vars(FindSend)
    /\ WF_vars(FindNotFound)
    /\ WF_vars(FindAccept)
    /\ WF_vars(FindAcceptTimeout)
    /\ WF_vars(FinderTick)

(***************************************************************************)
(* Steps and states the properties speak about.                            *)
(***************************************************************************)
\* The keep-alive thread writes its request to the socket.
KaSendStep == ka_pc = "send" /\ ka_pc' = "recv"
\* The keep-alive thread reads a message from the socket.
KaRecvStep == ka_pc = "recv" /\ ka_pc' # "recv" /\ in_q # <<>> /\ in_q' = Tail(in_q)
\* The wait of the keep-alive thread times out.
KaTimeoutStep == ka_pc = "wait" /\ ka_pc' = "send"
\* A request() of the foreground is in progress.
InRequest == fg_api \in {"request", "status_format", "status"} /\ fg_pc # "idle"
\* A request() has sent its message and has not yet returned the response.
Awaiting == InRequest /\ rq_sent > 0
\* The foreground reads the next message inside a request().
RequestReadStep ==
    /\ InRequest
    /\ fg_pc = "io" /\ fg_io = "recv"
    /\ in_q # <<>> /\ in_q' = Tail(in_q)
\* Exceptions raised by the send and receive of the transport.
IoErrors == {"ValueError", "BrokenPipeError", "InverterEOFError", "timeout"}

(***************************************************************************)
(* C1.  Foreground and keep-alive exchanges never interleave on the wire:  *)
(* while a request() has sent its message and not yet received its         *)
(* response, the keep-alive thread neither sends nor reads, and while the  *)
(* foreground is in the transport no keep-alive exchange is in flight.     *)
(***************************************************************************)
C1_NoInterleaving ==
    /\ [][(KaSendStep \/ KaRecvStep) => ~Awaiting]_vars
    /\ [](fg_pc = "io" => ka_pc \notin {"send", "recv"})

(***************************************************************************)
(* C2.  While a foreground send or receive is in the transport no          *)
(* keep-alive thread is running; stop_keep_alive returns only when the     *)
(* thread has ended; an exchange in flight is not interrupted; the stop    *)
(* signal is observed only in the wait.                                    *)
(***************************************************************************)
C2_StopIsSynchronous ==
    /\ []((fg_pc = "io" /\ fg_io \in {"send", "recv"}) => LiveThreads = 0)
    /\ [][(fg_pc = "join" /\ fg_pc' = "io") => ka_pc \notin KaAlive]_vars
    /\ [][(ka_pc # "exited" /\ ka_pc' = "exited") => (ka_pc = "wait" /\ ka_stop)]_vars
    /\ [][ka_pc = "send" => ka_pc' \in {"send", "recv", "crashed"}]_vars
    /\ [][ka_pc = "recv" => ka_pc' \in {"recv", "wait", "crashed"}]_vars

\* The stop signal is given while a keep-alive exchange is in flight.
C2_Witness == fg_pc = "join" /\ ka_stop /\ ka_pc = "recv" /\ in_q # <<>>

(***************************************************************************)
(* C3.  A keep-alive message is sent only when a full keep_alive_period    *)
(* has passed since the last foreground send or receive ended.             *)
(***************************************************************************)
C3_TimerReset == [][KaSendStep => since_fg >= keep_alive_period]_vars

\* A keep-alive is being sent after a foreground send has returned.
C3_Witness ==
    /\ fg_api = "send" /\ fg_pc = "idle" /\ fg_exc = "none"
    /\ ka_pc = "send"
    /\ since_fg >= keep_alive_period

(***************************************************************************)
(* C4.  Left alone, the keep-alive thread repeats forever: it waits one    *)
(* keep_alive_period, sends one status request (01 02 02, no payload),     *)
(* reads one message and drops it, and waits again.                        *)
(***************************************************************************)
C4_KeepAliveLoop ==
    /\ []<>(ka_pc = "recv")
    /\ []<>(ka_pc = "wait")
    /\ [][KaTimeoutStep => ka_timer >= keep_alive_period]_vars
    /\ [][KaSendStep => out_q' = Append(out_q, Msg(StatusReq, <<>>))]_vars
    /\ [][KaRecvStep => (ka_pc' = "wait" /\ ka_timer' = 0 /\ UNCHANGED fgVars)]_vars

\* The inverter has answered the keep-alive request in flight.
C4_Witness == ka_pc = "recv" /\ in_q # <<>> /\ out_q = <<>> /\ fg_api = "none"

(***************************************************************************)
(* C5.  After disconnect() has returned no keep-alive thread is alive and  *)
(* none is started again, whatever is called afterwards.                   *)
(***************************************************************************)
C5_StoppedForGood ==
    /\ [](closed => LiveThreads = 0)
    /\ [][closed => (closed' /\ ~KaSendStep)]_vars

\* A send() has been called after disconnect() and has raised.
C5_Witness ==
    /\ closed
    /\ fg_api = "send" /\ fg_pc = "idle" /\ fg_exc = "ValueError"

C8_MismatchRaises ==
    [][(RequestReadStep /\ ~StartsWith(Head(in_q).id, rq.prefix)) =>
          (fg_pc' = "idle" /\ fg_exc' # "none")]_vars

(***************************************************************************)
(* C9.  The status format is fetched once and cached: a status() call      *)
(* sends the format request only while no format has been cached.          *)
(***************************************************************************)
C9_FormatFetchedOnce ==
    [][(/\ fg_api = "status" /\ fg_stage = "format"
        /\ fg_pc = "io" /\ fg_io = "send"
        /\ Len(out_q') > Len(out_q)) => status_format = <<>>]_vars

(***************************************************************************)
(* C10.  The mapping returned by status() holds exactly the fields of the  *)
(* descriptor table whose descriptor yields a value that is not None for   *)
(* the cached format and the payload received, each with that value.       *)
(***************************************************************************)
PresentFields(fmt, payload) ==
    {i \in 1..Len(status_types) :
        GetValue(status_types[i].type, fmt, payload).t # "none"}

C10_StatusMapping ==
    (fg_api = "status" /\ fg_pc = "idle" /\ fg_exc = "none") =>
        LET fmt == status_format[1]
            payload == fg_result.payload
            vals == fg_result.values
        IN  /\ Len(vals) = Cardinality(PresentFields(fmt, payload))
            /\ \A i \in PresentFields(fmt, payload) :
                  \E k \in 1..Len(vals) :
                      /\ vals[k].name = status_types[i].name
                      /\ vals[k].val = GetValue(status_types[i].type, fmt, payload)

\* status() has returned a mapping with some fields and without the others.
C10_Witness ==
    /\ fg_api = "status" /\ fg_pc = "idle" /\ fg_exc = "none"
    /\ Len(fg_result.values) = 2
    /\ fg_result.values[2] = [name |-> "pv1_voltage", val |-> DecVal(375, -1)]

\* C11: for every descriptor kind and every entry of the status_types table,
\* get_value over a format that holds none of the descriptor's type IDs
\* returns None: not zero, and no exception.
C11_AbsentIsNone ==
    (/\ dec_value # PendingVal
     /\ \A id \in IdsOf(dec_type) : Find(dec_format, id) = -1)
    => dec_value = NoneVal

\* A status() call has ended, by a return or by an exception of the decoding,
\* over a payload whose size is not twice the size of the cached format.
StatusEndedOnMismatch ==
    /\ fg_api = "status" /\ fg_pc = "idle"
    /\ status_format # <<>>
    /\ fg_result.payload # <<>>
    /\ 2 * Len(status_format[1]) # Len(fg_result.payload)

\* C12: a status payload whose size is not twice the size of the format does
\* not make status() raise: the descriptor table is decoded all the same and
\* the mapping of the values found is returned; the only exception of the
\* decoding is the one the operation_mode descriptor raises for its own value.
C12_SizeMismatchNotFatal ==
    StatusEndedOnMismatch =>
        LET mode == OperationModeGetValue(status_format[1], fg_result.payload)
        IN  /\ fg_exc \in {"none", "KeyError"}
            /\ fg_exc = "KeyError" <=> mode = ErrVal
            /\ fg_exc = "none" =>
                   LET present == PresentFields(status_format[1], fg_result.payload)
                       vals == fg_result.values
                   IN  /\ Len(vals) = Cardinality(present)
                       /\ \A k \in 1..Len(vals) : \E i \in present :
                              /\ vals[k].name = status_types[i].name
                              /\ vals[k].val = GetValue(status_types[i].type,
                                     status_format[1], fg_result.payload)

C12_Witness ==
    /\ StatusEndedOnMismatch
    /\ fg_exc = "none"
    /\ Len(fg_result.values) = 2

(***************************************************************************)
(* Properties of the codec.                                                *)
(***************************************************************************)
\* The frames of the stream that the peer asked construct_message for.
Constructed(k) == frames[k].kind \in {"built", "OverflowError"}
\* Number of bytes of the stream up to the end of frame k.
RECURSIVE FrameEnd(_)
FrameEnd(k) == IF k = 0 THEN 0 ELSE FrameEnd(k - 1) + Len(frames[k].bytes)
\* The first k frames are messages construct_message has returned.
AllBuilt(k) == k <= Len(frames) /\ \A j \in 1..k : frames[j].kind = "built"

\* C13: for any 3-byte identifier and any payload of at most 4096 bytes,
\* construct_message returns 55 AA, the identifier, the 2-byte big-endian
\* payload length, the payload, and the sum of all those bytes modulo 65536
\* as 2 big-endian bytes; it raises nothing.
C13_ConstructReturns ==
    \A k \in 1..Len(frames) :
        (Constructed(k) /\ Len(frames[k].identifier) = 3
                        /\ Len(frames[k].payload) <= 4096) =>
            LET identifier == frames[k].identifier
                payload == frames[k].payload
                body == <<85, 170>> \o identifier
                            \o <<Len(payload) \div 256, Len(payload) % 256>> \o payload
                sum == Sum(body) % 65536
            IN  construct_message(identifier, payload)
                    = Returned(body \o <<sum \div 256, sum % 256>>)

\* C14: round trip: for any 3-byte identifier and any payload of fewer than
\* 4096 bytes, construct_message gives a message, and read_message on a
\* stream that holds it returns exactly that identifier and payload.
C14_RoundTrip ==
    (frames # <<>> /\ Constructed(1) /\ Len(frames[1].payload) < 4096) =>
        /\ construct_message(frames[1].identifier, frames[1].payload).exc = "none"
        /\ rm_results # <<>> =>
               /\ rm_results[1].exc = "none"
               /\ rm_results[1].identifier = frames[1].identifier
               /\ rm_results[1].payload = frames[1].payload

\* C15: however the bytes of the messages arrive, whole or in pieces down to
\* single bytes, the k-th read_message on a stream of built messages returns
\* the identifier and payload of the k-th message and reads exactly the bytes
\* of that message: two messages that arrive together are returned by two
\* successive reads, the first and then the second.
C15_FramingResilience ==
    \A k \in 1..Len(rm_results) :
        AllBuilt(k) =>
            rm_results[k] = [exc |-> "none",
                             identifier |-> frames[k].identifier,
                             payload |-> frames[k].payload,
                             from |-> FrameEnd(k - 1), to |-> FrameEnd(k)]

\* The first of two messages has been returned; the second is being read
\* while its last two bytes have not arrived.
C15_Witness ==
    /\ AllBuilt(2)
    /\ Len(rm_results) = 1
    /\ rm_pc = "checksum"
    /\ rm_payload # <<>>
    /\ stream_buf = <<>>
    /\ Len(stream_src) = 2

\* C16: a built message in which one payload byte was changed to another
\* value makes read_message raise the checksum error; no message is returned.
C16_CorruptionDetected ==
    (frames # <<>> /\ frames[1].kind = "corrupt" /\ rm_results # <<>>) =>
        rm_results[1].exc = "ValueError: Checksum invalid"

\* C17: a read_message call that finds the stream ended before its first byte
\* raises InverterEOFError; one that finds two first bytes other than 55 AA
\* raises ValueError for the start; one that finds a declared payload length
\* above 4096 raises ValueError for the size.  None of them returns a message.
C17_Rejections ==
    \A k \in 1..Len(rm_results) :
        LET r == rm_results[k]
            start == Slice(written, r.from, r.from + 2)
            size == Slice(written, r.from + 5, r.from + 7)
        IN  /\ start = <<>> => r.exc = "InverterEOFError"
            /\ (start # <<>> /\ start # <<85, 170>>) =>
                   r.exc = "ValueError: Invalid start of message"
            /\ (start = <<85, 170>> /\ Len(size) = 2 /\ BigEndian(size) > 4096) =>
                   r.exc = "ValueError: Unexpected payload size value"

\* A message that declares 4097 bytes of payload has been rejected, and the
\* next call has found the end of the stream.
C17_Witness ==
    /\ written = <<85, 170, 0, 1, 2, 16, 1>>
    /\ Len(rm_results) = 2
    /\ rm_results[1].exc = "ValueError: Unexpected payload size value"
    /\ rm_results[2].exc = "InverterEOFError"
    /\ rm_results[2].from = 7

(***************************************************************************)
(* Properties of the InverterFinder.                                       *)
(***************************************************************************)
\* find_inverter has been called on a finder that is open.
FindCalled == f_api = "find_inverter" /\ f_exc # Exc("AttributeError")
InFind == f_api = "find_inverter" /\ f_pc # "idle"
InOpenWithRetries == f_api = "open_with_retries" /\ f_pc # "idle"
Max(a, b) == IF a > b THEN a ELSE b
AddrInUseError(outcome) == outcome.exc = "OSError" /\ outcome.errno \in AddrInUse

\* The rounds of find_inverter, and its two outcomes.
FindRounds ==
    FindCalled =>
        /\ f_round <= f_advertisements
        /\ f_broadcasts <= f_advertisements
        /\ f_pc = "broadcast" => f_broadcasts = f_round
        /\ f_pc = "accept" => f_broadcasts = f_round + 1 /\ f_wait <= f_interval
        /\ f_result = "sock" =>
               /\ f_pc = "idle" /\ f_exc = NoExc
               /\ f_broadcasts = f_round + 1
        /\ (f_pc = "idle" /\ f_round = f_advertisements) =>
               /\ f_exc = Exc("InverterNotFoundError")
               /\ f_broadcasts = f_advertisements
        /\ (f_pc = "idle" /\ f_exc = Exc("InverterNotFoundError")) =>
               f_round = f_advertisements
        /\ f_pc = "idle" => bc = "closed"

\* accept() returns a connection to find_inverter.
AcceptStep == InFind /\ f_pc = "accept" /\ pending' < pending

C19_RetryOnlyAddrInUse ==
    (f_api = "open_with_retries" /\ f_attempts # <<>>) =>
        LET n == Len(f_attempts)
            last == f_attempts[n]
        IN  /\ \A k \in 1..(n - 1) : AddrInUseError(f_attempts[k])
            /\ f_sleeps \in {n - 1, n}
            /\ ~AddrInUseError(last) =>
                   /\ f_pc = "idle"
                   /\ f_exc = last
                   /\ f_sleeps = n - 1

\* The port was in use at the first attempt; the second attempt failed with
\* another error, which was raised.
C19_Witness ==
    /\ f_api = "open_with_retries" /\ f_pc = "idle"
    /\ Len(f_attempts) = 2
    /\ AddrInUseError(f_attempts[1])
    /\ f_attempts[2] = OSError(13)
    /\ f_exc = OSError(13)

\* How open_with_retries ends: listening after an open() that succeeded,
\* and with the error of the last open() once the budget is used up.
RetryOutcome ==
    (f_api = "open_with_retries" /\ f_pc = "idle" /\ f_attempts # <<>>) =>
        LET last == f_attempts[Len(f_attempts)]
        IN  /\ last = NoExc => (listen_sock = "listening" /\ f_exc = NoExc)
            /\ AddrInUseError(last) =>
                   /\ f_exc = last
                   /\ listen_sock = "none"
                   /\ f_tries >= f_retries

\* Once the port is free the call ends, and not by 'address in use'.
EndsOnceReleased ==
    (InOpenWithRetries /\ ~port_held)
        ~> (f_pc = "idle" /\ ~AddrInUseError(f_exc)
            /\ (f_exc = NoExc => listen_sock = "listening"))

\* C20 as stated: open_with_retries succeeds once the holder of the port has
\* released it within the budget, fails with the OS error once the budget is
\* used up, and never calls open() more often than retries.
C20_Original ==
    /\ []RetryOutcome
    /\ EndsOnceReleased
    /\ [](f_api = "open_with_retries" => Len(f_attempts) <= f_retries)
    /\ (InOpenWithRetries ~> f_pc = "idle")

\* C20, amended: the same, except that open() is called at most
\* max(1, retries) times: once even when retries is 0.
C20_BoundedRetry ==
    /\ []RetryOutcome
    /\ EndsOnceReleased
    /\ [](f_api = "open_with_retries" => Len(f_attempts) <= Max(1, f_retries))
    /\ (InOpenWithRetries ~> f_pc = "idle")

\* The port was in use at the first attempt and free at the second.
C20_Witness ==
    /\ f_api = "open_with_retries" /\ f_pc = "idle"
    /\ Len(f_attempts) = 2
    /\ AddrInUseError(f_attempts[1])
    /\ f_attempts[2] = NoExc
    /\ listen_sock = "listening"

\* The foreground has returned from a call of api.
Ended(api) == fg_pc = "idle" /\ fg_api = api

(***************************************************************************)
(* C21.  disconnect() is idempotent: called on a session that is already   *)
(* closed (by an earlier disconnect(), or because the caller closed the    *)
(* socket and the stream file), it raises nothing and the session stays    *)
(* closed; a closed session never opens again.                             *)
(***************************************************************************)
C21_DisconnectIdempotent ==
    /\ [](Ended("disconnect") /\ was_closed => fg_exc = "none" /\ closed)
    /\ [][closed => closed']_vars

\* A second disconnect() has returned, and so has a disconnect() of a session
\* whose socket the caller had closed.
C21_Witness ==
    /\ Ended("disconnect") /\ was_closed /\ fg_exc = "none" /\ closed
    /\ disc_called

\* The public methods that use the connection.
UseCalls == {"send", "receive", "request", "model", "status", "status_format"}

(***************************************************************************)
(* C22.  After disconnect(), every further send, receive and request       *)
(* (model, status and status_format included) on the session fails with an *)
(* error, and no byte is put on the wire any more.                         *)
(***************************************************************************)
C22_UseAfterDisconnect ==
    /\ [](fg_pc = "idle" /\ fg_api \in UseCalls /\ disc_called /\ was_closed
             => fg_exc # "none")
    /\ [][disc_called /\ closed => Len(out_q') <= Len(out_q)]_vars

\* model() was called on a session closed by disconnect() and has raised.
C22_Witness ==
    /\ Ended("model") /\ disc_called /\ was_closed
    /\ fg_exc = "ValueError"
    /\ peer_open

\* The foreground is in send() on a connection the inverter has closed.
SendBroken == fg_pc = "io" /\ fg_io = "send" /\ ~closed /\ ~peer_open
\* The foreground is in receive() at the end of the stream.
RecvAtEOF == fg_pc = "io" /\ fg_io = "recv" /\ ~closed /\ ~peer_open /\ in_q = <<>>
\* The foreground is in receive() in front of bytes that are not a message.
RecvGarbled ==
    fg_pc = "io" /\ fg_io = "recv" /\ ~closed /\ in_q # <<>> /\ Head(in_q) = Garbled
\* The foreground takes a step.
FgStep == fgVars' # fgVars
\* The call of the foreground ends with exc: nothing more is sent, the
\* connection is not opened again.
EndsWith(exc) ==
    /\ fg_pc' = "idle" /\ fg_exc' = exc
    /\ out_q' = out_q
    /\ UNCHANGED <<peer_open, closed>>

C23_FramingWitness ==
    /\ Ended("status") /\ fg_exc = "ValueError"
    /\ ~closed /\ ~was_closed /\ peer_open
    /\ status_format # <<>>

\* get_value has returned or raised on a descriptor of kind.
Decoded(kind) == dec_value # PendingVal /\ dec_type.kind = kind

\* The positions (from 0) of the IDs of ids in fmt, -1 for an absent one.
SlotOf(fmt, id) ==
    IF \A i \in 1..Len(fmt) : fmt[i] # id THEN -1
    ELSE (CHOOSE i \in 1..Len(fmt) :
              fmt[i] = id /\ \A j \in 1..Len(fmt) : fmt[j] = id => i <= j) - 1
\* All IDs of ids are in fmt.
AllPresent(ids, fmt) == \A k \in 1..Len(ids) : SlotOf(fmt, ids[k]) # -1
\* Byte n (from 1) of the slots of ids, in the order of ids, of a payload
\* that holds all of them.
SlotByte(ids, fmt, payload, n) ==
    payload[2 * SlotOf(fmt, ids[(n + 1) \div 2]) + 2 - (n % 2)]
\* The payload has a 2-byte slot for every position of the format.
FullPayload(fmt, payload) == Len(payload) >= 2 * Len(fmt)

(***************************************************************************)
(* C24.  A BytesStatusType with several IDs returns the 2-byte slots       *)
(* payload[2i:2i+2] of its IDs concatenated in the order the IDs were      *)
(* given, not in the order of the format, and is absent as soon as one of  *)
(* its IDs is not in the format.                                           *)
(***************************************************************************)
C24_BytesConcatenation ==
    Decoded("bytes") =>
        LET ids == dec_type.ids
        IN  /\ ~AllPresent(ids, dec_format) => dec_value = NoneVal
            /\ AllPresent(ids, dec_format) =>
                  /\ dec_value.t = "bytes"
                  /\ FullPayload(dec_format, dec_payload) =>
                        /\ Len(dec_value.s) = 2 * Len(ids)
                        /\ \A n \in 1..(2 * Len(ids)) :
                              dec_value.s[n] = SlotByte(ids, dec_format, dec_payload, n)
                  /\ dec_value.s =
                        Join([k \in 1..Len(ids) |->
                                 Slice(dec_payload, 2 * SlotOf(dec_format, ids[k]),
                                       2 * SlotOf(dec_format, ids[k]) + 2)])

\* The IDs (2, 1) over the reference format and payload: the slot of 2 comes
\* first although 1 comes first in the format.
C24_Witness ==
    /\ Decoded("bytes")
    /\ dec_type.ids = <<2, 1>>
    /\ dec_format = ReferenceFormat /\ dec_payload = ReferencePayload
    /\ dec_value = BytesVal(<<11, 225, 11, 172>>)

\* The bytes a descriptor with the IDs of dec_type reads from the payload.
DecBytes == BytesGetValue(dec_type.ids, dec_format, dec_payload).s
\* The weight of byte i of n bytes read as a big-endian two's complement
\* (signed) or unsigned integer is 256^(n-i); the first byte of a signed one
\* stands for itself minus 256 when it is 128 or more.
Digit(b, i, signed) == IF signed /\ i = 1 /\ b[1] >= 128 THEN b[1] - 256 ELSE b[i]
Positional(b, signed) ==
    Sum([i \in 1..Len(b) |-> Digit(b, i, signed) * Pow(256, Len(b) - i)])

(***************************************************************************)
(* C25.  IntStatusType reads the concatenated slot bytes of its k IDs as   *)
(* one big-endian integer: unsigned (0 .. 2^(16k)-1) unless it is signed,  *)
(* two's complement (-2^(16k-1) .. 2^(16k-1)-1) otherwise.                 *)
(***************************************************************************)
C25_IntBigEndian ==
    (Decoded("int") /\ AllPresent(dec_type.ids, dec_format)) =>
        LET n == Len(DecBytes)
            top == IF n = 0 THEN 1 ELSE Pow(256, n - 1)
        IN  /\ dec_value.t = "int"
            /\ dec_value.v = Positional(DecBytes, dec_type.signed)
            /\ n > 0 /\ ~dec_type.signed =>
                  dec_value.v >= 0 /\ dec_value.v \div top <= 255
            /\ n > 0 /\ dec_type.signed =>
                  dec_value.v \div top >= 0 - 128 /\ dec_value.v \div top <= 127
            /\ n > 0 /\ dec_type.signed =>
                  (dec_value.v < 0 <=> DecBytes[1] >= 128)

\* The signed IDs (1, 12) over four bytes that begin with ff ff.
C25_Witness ==
    /\ Decoded("int")
    /\ dec_type = IntStatusType(<<1, 12>>, TRUE)
    /\ dec_format = <<1, 12>> /\ dec_payload = <<255, 255, 0, 9>>
    /\ dec_value = IntVal(0 - 65527)

\* The unsigned IDs (9, 10) of total_operation_time over the reference
\* format and payload.
C25_UnsignedWitness ==
    /\ Decoded("int")
    /\ dec_type = IntStatusType(<<9, 10>>, FALSE)
    /\ dec_format = ReferenceFormat /\ dec_payload = ReferencePayload
    /\ dec_value = IntVal(10304)

(***************************************************************************)
(* C26.  DecimalStatusType returns exactly the integer of its slots times  *)
(* 10^scale, as an exact decimal without rounding: the IDs (0x35, 0x36)    *)
(* with scale -1 over the reference format and payload give 11105.2.       *)
(***************************************************************************)
C26_DecimalExact ==
    /\ (Decoded("decimal") /\ AllPresent(dec_type.ids, dec_format)) =>
          LET int_val == Positional(DecBytes, dec_type.signed)
              shift == dec_value.e - dec_type.scale
          IN  /\ dec_value.t = "dec"
              /\ shift >= 0 => dec_value.v * Pow(10, shift) = int_val
              /\ shift < 0 => dec_value.v = int_val * Pow(10, 0 - shift)
    /\ (/\ dec_value # PendingVal
        /\ dec_type = DecimalStatusType(<<53, 54>>, -1, FALSE)
        /\ dec_format = ReferenceFormat /\ dec_payload = ReferencePayload)
       => dec_value = DecVal(111052, -1)

\* The call of the example has returned 111052 * 10^-1.
C26_Witness ==
    /\ Decoded("decimal")
    /\ dec_type.ids = <<53, 54>> /\ dec_type.scale = -1
    /\ dec_format = ReferenceFormat /\ dec_payload = ReferencePayload
    /\ dec_value.v = 111052 /\ dec_value.e = -1

\* The unsigned integer in the slot of the operating mode (ID 0x0c).
ModeInt == Positional(DecBytes, FALSE)

(***************************************************************************)
(* C27.  OperationModeStatusType maps the integer in the slot of ID 0x0c:  *)
(* 0 Wait, 1 Normal, 2 Fault, 3 Permanent fault, 4 Check, 5 PV power off;  *)
(* an integer outside 0..5 is an error, never a default mode.              *)
(***************************************************************************)
C27_OperationModes ==
    (Decoded("mode") /\ AllPresent(<<12>>, dec_format)) =>
        /\ ModeInt = 0 => dec_value = StrVal("Wait")
        /\ ModeInt = 1 => dec_value = StrVal("Normal")
        /\ ModeInt = 2 => dec_value = StrVal("Fault")
        /\ ModeInt = 3 => dec_value = StrVal("Permanent fault")
        /\ ModeInt = 4 => dec_value = StrVal("Check")
        /\ ModeInt = 5 => dec_value = StrVal("PV power off")
        /\ ModeInt \notin 0..5 => dec_value = ErrVal

\* The mode with the largest key has been decoded.
C27_Witness ==
    /\ Decoded("mode")
    /\ dec_format = <<12>> /\ dec_payload = <<0, 5>>
    /\ dec_value.str = "PV power off"

\* The integer 6 in the slot has raised.
C27_ErrorWitness ==
    /\ Decoded("mode")
    /\ dec_format = <<12>> /\ dec_payload = <<0, 6>>
    /\ dec_value.t = "err"

\* The value of child k of the descriptor get_value was called on.
ChildValue(k) == LeafGetValue(dec_type.sub[k], dec_format, dec_payload)

(***************************************************************************)
(* C28.  OneOfStatusType returns the value of the first of its children,   *)
(* in the order given, that is not absent, also when a later child has a   *)
(* value as well, and is absent when all children are.                     *)
(***************************************************************************)
C28_OneOfFirst ==
    Decoded("oneof") =>
        LET n == Len(dec_type.sub)
            present == {k \in 1..n : ChildValue(k) # NoneVal}
        IN  /\ present = {} => dec_value = NoneVal
            /\ \A k \in present :
                  (\A j \in present : k <= j) =>
                      dec_value = ChildValue(k) /\ dec_value # NoneVal

\* Both children have a value, and they differ: the first one is returned.
C28_Witness ==
    /\ Decoded("oneof")
    /\ Len(dec_type.sub) = 2
    /\ ChildValue(1) # NoneVal /\ ChildValue(2) # NoneVal
    /\ ChildValue(1) # ChildValue(2)
    /\ dec_value = IntVal(3)

\* The trigger ID of an IfPresentStatusType is in the format.
TriggerPresent == \E i \in 1..Len(dec_format) : dec_format[i] = dec_type.ids[1]

(***************************************************************************)
(* C29.  IfPresentStatusType with trigger ID T and flag presence returns   *)
(* the value of its inner descriptor when (T is in the format) = presence  *)
(* and is absent otherwise, in all four combinations.                      *)
(***************************************************************************)
C29_IfPresent ==
    Decoded("ifpresent") =>
        /\ (dec_type.presence /\ TriggerPresent) => dec_value = ChildValue(1)
        /\ (dec_type.presence /\ ~TriggerPresent) => dec_value = NoneVal
        /\ (~dec_type.presence /\ TriggerPresent) => dec_value = NoneVal
        /\ (~dec_type.presence /\ ~TriggerPresent) => dec_value = ChildValue(1)

\* presence is False, the trigger is not in the format and the inner
\* descriptor has a value.
C29_Witness ==
    /\ Decoded("ifpresent")
    /\ ~dec_type.presence /\ ~TriggerPresent
    /\ dec_value = IntVal(375)

\* presence is False, the trigger is in the format and the inner descriptor
\* has a value that is not returned.
C29_SuppressedWitness ==
    /\ Decoded("ifpresent")
    /\ ~dec_type.presence /\ TriggerPresent
    /\ ChildValue(1) # NoneVal
    /\ dec_value = NoneVal

\* The names of the fields of the mapping status() has returned.
StatusNames ==
    {dec_status.values[k].name : k \in 1..Len(dec_status.values)}
\* status() has returned a mapping.
StatusReturned == dec_status.exc = "none"

SinglePhaseFields == {"grid_voltage", "grid_current", "grid_frequency"}
RPhaseFields ==
    {"grid_voltage_r_phase", "grid_current_r_phase", "grid_frequency_r_phase"}
ThreePhaseFields ==
    RPhaseFields \cup
    {"grid_voltage_s_phase", "grid_current_s_phase", "grid_frequency_s_phase",
     "grid_voltage_t_phase", "grid_current_t_phase", "grid_frequency_t_phase"}

(***************************************************************************)
(* C30.  For every format and payload, the mapping status() returns never  *)
(* holds a single-phase grid field (grid_voltage, grid_current,            *)
(* grid_frequency) together with a three-phase one (a field whose name     *)
(* ends in _r_phase, _s_phase or _t_phase).                                *)
(***************************************************************************)
C30_PhasesExclusive ==
    StatusReturned =>
        (StatusNames \cap SinglePhaseFields = {}
         \/ StatusNames \cap ThreePhaseFields = {})

\* What the table does ensure: no single-phase field together with an
\* R-phase field, and no single-phase field when ID 0x51 is in the format.
C30_RPhaseExclusive ==
    StatusReturned =>
        /\ (StatusNames \cap SinglePhaseFields = {}
            \/ StatusNames \cap RPhaseFields = {})
        /\ Find(dec_format, 81) # -1 => StatusNames \cap SinglePhaseFields = {}

\* status() has returned the R-phase and S-phase fields of a three-phase
\* format, and no single-phase field.
C30_Witness ==
    /\ StatusReturned
    /\ "grid_voltage_r_phase" \in StatusNames
    /\ "grid_voltage_s_phase" \in StatusNames
    /\ StatusNames \cap SinglePhaseFields = {}

(***************************************************************************)
(* C31.  No mutable state is shared across sessions: in any interleaving   *)
(* of operations on two sessions, the status format cached by status() on  *)
(* one is never read or overwritten by the other: the attribute of the     *)
(* class is never assigned, a step that changes the cached format of a     *)
(* session is a step of that session, and status() decodes with the format *)
(* of its own inverter.                                                    *)
(***************************************************************************)
C31_NoSharedState ==
    /\ [](class_format = <<>>)
    /\ [](\A i \in 1..Len(objs) :
             /\ objs[i].format # <<>> => objs[i].format = <<dev_format[i]>>
             /\ objs[i].used # <<>> => objs[i].used = <<dev_format[i]>>)
    /\ [][\A i \in 1..Len(objs) :
             (i <= Len(objs') /\ objs'[i].format # objs[i].format)
                 => objs[i].pc = "idle" /\ objs'[i].pc = "status"]_vars

\* Two sessions whose inverters have different formats have both decoded a
\* status.
C31_Witness ==
    /\ Len(objs) = 2
    /\ objs[1].used # <<>> /\ objs[2].used # <<>>
    /\ objs[1].used # objs[2].used
    /\ objs[1].used[1] # <<>> /\ objs[2].used[1] # <<>>

\* The with statement of connect_inverters was entered and has been left.
CiExited == ci_pc = "exited"

(***************************************************************************)
(* C32.  Every inverter connect_inverters has connected is disconnected by *)
(* the time the context manager is exited, whether the body completes      *)
(* normally or raises.                                                     *)
(***************************************************************************)
C32_AllDisconnected ==
    CiExited => \A i \in 1..Len(objs) : objs[i].closed /\ ~objs[i].thread

\* What the finally block does ensure: all sessions are disconnected unless
\* a disconnect() has raised, and the ones before the failing one are.
C32_DisconnectedUnlessRaised ==
    CiExited =>
        /\ ci_exc # "OSError" => \A i \in 1..Len(objs) : objs[i].closed
        /\ \A i \in 1..ci_k : objs[i].closed

\* The body has raised and both sessions have been disconnected.
C32_Witness ==
    /\ CiExited /\ ci_exc = "Exception"
    /\ Len(objs) = 2
    /\ \A i \in 1..2 : objs[i].closed /\ ~objs[i].thread

\* open() is called and ends within this step.
OpenStep == Len(f_attempts') = Len(f_attempts) + 1
\* How the open() of this step has ended.
OpenOutcome == f_attempts'[Len(f_attempts')]

(***************************************************************************)
(* C33.  open() on a finder that is open raises RuntimeError and leaves    *)
(* the listening socket untouched; when socket creation, bind or listen    *)
(* fails, the new socket is closed and listen_sock is None before the      *)
(* OSError is raised again, so a later open() is attempted afresh and      *)
(* never hits the 'already created' guard.                                 *)
(***************************************************************************)
C33_OpenGuardAndCleanup ==
    /\ [][(OpenStep /\ listen_sock # "none") =>
             /\ OpenOutcome = Exc("RuntimeError")
             /\ UNCHANGED <<listen_sock, f_socks, pending>>]_vars
    /\ [][(OpenStep /\ OpenOutcome.exc = "OSError") =>
             listen_sock' = "none" /\ f_socks' = 0]_vars
    /\ [][(OpenStep /\ listen_sock = "none") => OpenOutcome.exc # "RuntimeError"]_vars
    /\ [](f_socks = IF listen_sock = "none" THEN 0 ELSE 1)

\* An open() has failed on the port in use, and the next open() of the same
\* open_with_retries call has succeeded.
C33_Witness ==
    /\ Len(f_attempts) = 2
    /\ f_attempts[1].exc = "OSError" /\ f_attempts[2] = NoExc
    /\ listen_sock = "listening" /\ f_socks = 1

\* An open() on an open finder has raised RuntimeError.
C33_GuardWitness ==
    /\ f_pc = "idle" /\ f_exc = Exc("RuntimeError")
    /\ listen_sock = "listening"


\* The send or receive of the transport raises inside the foreground call.
FgIoRaises ==
    /\ fg_pc = "io" /\ fg_io \in {"send", "recv"}
    /\ fg_pc' = "idle" /\ fg_exc' # "none"
\* The send or receive of the transport succeeds inside the foreground call.
FgIoSucceeds ==
    /\ fg_pc = "io" /\ fg_io \in {"send", "recv"}
    /\ fg_exc' = "none"
    /\ \/ fg_io = "send" /\ out_q' = Append(out_q, Msg(rq.id, rq.payload))
       \/ fg_io = "recv" /\ in_q # <<>> /\ in_q' = Tail(in_q)
\* There is no keep-alive thread, neither referenced nor running.
NoThread == ka_thread = "none" /\ LiveThreads = 0

(***************************************************************************)
(* C34.  When the send or receive of the transport raises inside           *)
(* KeepAliveInverter.send or receive (broken pipe, timeout, end of stream, *)
(* bytes that are not a message), the keep-alive thread is not started     *)
(* again: the session has no thread although disconnect() was not called,  *)
(* and it gets one only at the end of a later foreground send or receive   *)
(* that has succeeded.                                                     *)
(***************************************************************************)
C34_NoRestartAfterError ==
    /\ [][FgIoRaises => NoThread' /\ fg_exc' \in IoErrors]_vars
    /\ [](fg_pc = "idle" /\ fg_exc \in {"BrokenPipeError", "InverterEOFError", "timeout"}
             => NoThread)
    /\ [][ka_thread = "none" /\ ka_thread' # "none" => fg_pc = "start"]_vars
    /\ [][fg_pc # "start" /\ fg_pc' = "start" => FgIoSucceeds]_vars

\* A receive() has timed out on a session that is open and was never
\* disconnected: no thread is left.
C34_Witness ==
    /\ Ended("receive") /\ fg_exc = "timeout"
    /\ ~closed /\ ~disc_called /\ peer_open
    /\ NoThread

\* A status() has ended on bytes that are not a message: no thread is left.
C34_FramingWitness ==
    /\ Ended("status") /\ fg_exc = "ValueError" /\ fg_result = NoResult
    /\ ~closed /\ ~disc_called
    /\ NoThread /\ ka_pc = "exited"


\* The exchange of the keep-alive thread cannot succeed: its send meets a
\* connection that is closed, its receive the end of the stream, silence or
\* bytes that are not a message.
KaSendBroken == ka_pc = "send" /\ (closed \/ ~peer_open)
KaRecvBroken == ka_pc = "recv" /\ (closed \/ in_q = <<>> \/ Head(in_q) = Garbled)
\* The keep-alive thread takes a step.
KaStep == ka_pc' # ka_pc

(***************************************************************************)
(* C35.  When a keep-alive exchange raises in the background thread (error *)
(* of send, end of stream, timeout of receive, bytes that are not a        *)
(* message), the thread ends, the foreground sees nothing of the error,    *)
(* and no keep-alive is sent any more; the next foreground send or receive *)
(* goes on all the same (the join of the ended thread does not block) and  *)
(* starts a new thread when its own I/O has succeeded.                     *)
(***************************************************************************)
C35_BackgroundErrorIsSilent ==
    /\ [][(KaSendBroken \/ KaRecvBroken) /\ KaStep
             => ka_pc' = "crashed" /\ out_q' = out_q /\ UNCHANGED fgVars]_vars
    /\ [][ka_pc = "crashed" /\ ka_pc' # "crashed" => fg_pc = "start"]_vars
    /\ [][ka_pc = "crashed" /\ out_q' # out_q /\ Len(out_q') > Len(out_q)
             => fg_pc = "io" /\ fg_io = "send"]_vars
    /\ [](fg_pc = "join" /\ ka_pc = "crashed" => ENABLED FgJoin)
    /\ [][fg_pc = "start" /\ fg_pc' # "start"
             => ka_thread' = "thread" /\ ka_pc' = "wait" /\ ~ka_stop']_vars

\* The foreground has joined a thread that had ended with an exception, and
\* its own I/O has succeeded: the new thread is about to be started.
C35_Witness ==
    /\ ka_pc = "crashed" /\ ka_thread = "none"
    /\ fg_pc = "start" /\ fg_exc = "none"
    /\ ~closed

\* The foreground waits in join() for a thread that has ended with an
\* exception.
C35_JoinWitness == fg_pc = "join" /\ ka_pc = "crashed" /\ ka_stop


\* The keep-alive thread takes a message out of the stream.
KaReads == ka_pc = "recv" /\ Len(in_q') < Len(in_q)
\* The foreground is in the receive of a status request of status().
StatusReceive == fg_api = "status" /\ fg_stage = "status" /\ fg_io = "recv"

(***************************************************************************)
(* C36.  A keep-alive exchange reads exactly one message and drops it,     *)
(* whatever its identifier.  So when the inverter sends a message of its   *)
(* own ahead of the response to the keep-alive request, the response stays *)
(* unread at the head of the stream, the next receive of the foreground    *)
(* reads it first, and status() takes it for the answer to its own request *)
(* because its identifier starts with the expected prefix.                 *)
(***************************************************************************)
C36_KeepAliveReadsOne ==
    /\ [][KaReads => /\ in_q' = Tail(in_q)
                     /\ ka_pc' = IF Head(in_q) = Garbled THEN "crashed" ELSE "wait"
                     /\ UNCHANGED fgVars]_vars
    /\ [](ka_left => in_q # <<>> /\ StartsWith(Head(in_q).id, StatusPrefix))
    /\ [][ka_left /\ fg_pc = "io" /\ fg_io = "recv" /\ ~closed /\ FgStep
             => fg_msg' = Head(in_q) /\ in_q' = Tail(in_q) /\ fg_pc' = "start"]_vars
    /\ [][fg_pc = "start" /\ StatusReceive /\ StartsWith(fg_msg.id, StatusPrefix) /\ FgStep
             => /\ fg_pc' = "idle"
                /\ fg_result'.payload = fg_msg.payload
                /\ out_q' = out_q]_vars

\* status() has sent its request, which the inverter has not yet answered,
\* and is about to read the response that a keep-alive exchange has left
\* behind.
C36_Witness ==
    /\ ka_left
    /\ fg_pc = "io" /\ StatusReceive /\ rq_sent = 1
    /\ ~closed
    /\ out_q = <<Msg(StatusReq, <<>>)>>
    /\ Head(in_q) \in Responses(StatusReq, FailFormats, FailStatusPayloads)


\* The shutdown of disconnect() fails with an error that is raised again.
ShutdownRaises == fg_pc = "io" /\ fg_io = "disc" /\ fg_exc' = "OSError"

(***************************************************************************)
(* C39.  When the shutdown in disconnect() fails with an OSError whose     *)
(* errno is none of 107, 9 and 10038, the error is raised again and        *)
(* neither the stream file nor the socket is closed; a KeepAliveInverter   *)
(* has stopped its keep-alive thread by then and does not start it again.  *)
(***************************************************************************)
C39_FailedShutdown ==
    /\ [][ShutdownRaises => /\ fg_pc' = "idle"
                            /\ ~closed /\ ~closed'
                            /\ NoThread /\ NoThread']_vars
    /\ [](Ended("disconnect") /\ fg_exc = "OSError" => ~closed /\ NoThread)
    /\ [][fg_api = "disconnect" /\ ka_thread = "none" => ka_thread' = "none"]_vars

\* disconnect() of a KeepAliveInverter has raised the error of the shutdown:
\* the session is open and has no thread.
C39_Witness ==
    /\ cls = "KeepAliveInverter"
    /\ Ended("disconnect") /\ fg_exc = "OSError"
    /\ ~closed /\ NoThread /\ ka_pc = "exited"
    /\ peer_open


\* dec_type is a descriptor of one ID that the format holds.
OneSlot ==
    /\ dec_type.kind \in {"bytes", "int", "decimal", "mode"}
    /\ Len(dec_type.ids) = 1
    /\ AllPresent(dec_type.ids, dec_format)
\* The first byte (from 0) of the slot of dec_type in the payload.
SlotStart == 2 * SlotOf(dec_format, dec_type.ids[1])
\* The slot lies wholly beyond the end of the payload.
SlotBeyond == OneSlot /\ SlotStart >= Len(dec_payload)
\* The payload ends after the first byte of the slot.
SlotCut == OneSlot /\ SlotStart + 1 = Len(dec_payload)
\* The integer of a single byte.
OneByte(b, signed) == IF signed /\ b >= 128 THEN b - 256 ELSE b

(***************************************************************************)
(* C37.  When the payload is shorter than 2 x len(format), a descriptor    *)
(* whose ID is in the format and whose slot lies wholly beyond the end of  *)
(* the payload decodes from the empty byte string: an integer and a        *)
(* decimal descriptor give 0 and not None, the operating mode gives        *)
(* 'Wait'; a slot cut after its first byte decodes from that one byte.     *)
(***************************************************************************)
C37_TruncatedPayload ==
    /\ (dec_value # PendingVal /\ SlotBeyond) =>
          /\ ~FullPayload(dec_format, dec_payload)
          /\ dec_type.kind = "bytes" => dec_value = BytesVal(<<>>)
          /\ dec_type.kind = "int" => dec_value = IntVal(0)
          /\ dec_type.kind = "decimal" => dec_value = DecVal(0, dec_type.scale)
          /\ dec_type.kind = "mode" => dec_value = StrVal("Wait")
    /\ (dec_value # PendingVal /\ SlotCut) =>
          LET b == dec_payload[SlotStart + 1]
          IN  /\ ~FullPayload(dec_format, dec_payload)
              /\ dec_type.kind = "bytes" => dec_value = BytesVal(<<b>>)
              /\ dec_type.kind = "int" => dec_value = IntVal(OneByte(b, dec_type.signed))
              /\ dec_type.kind = "decimal" =>
                    dec_value = DecVal(OneByte(b, dec_type.signed), dec_type.scale)
              /\ dec_type.kind = "mode" =>
                    dec_value = IF b \in 0..5 THEN StrVal(operating_modes[b]) ELSE ErrVal

\* The operating mode, whose slot is the second of the format, over a
\* payload of one slot: 'Wait'.
C37_Witness ==
    /\ Decoded("mode") /\ SlotBeyond
    /\ dec_format = <<1, 12>> /\ dec_payload = <<0, 1>>
    /\ dec_value = StrVal("Wait")

\* A decimal descriptor whose slot lies beyond the payload has given 0.
C37_DecimalWitness ==
    /\ Decoded("decimal") /\ SlotBeyond
    /\ dec_payload # <<>>
    /\ dec_value.t = "dec" /\ dec_value.v = 0

\* A signed descriptor has decoded a slot cut after its first byte, c8.
C37_CutWitness ==
    /\ dec_value # PendingVal /\ SlotCut
    /\ dec_type.signed /\ dec_payload = <<200>>
    /\ dec_value.v = 0 - 56


\* The stream has ended inside its first message, of which at least one
\* byte was written.
CutStream == frames # <<>> /\ frames[1].kind = "cut"

(***************************************************************************)
(* C38.  When the stream ends after at least one byte of a message was     *)
(* read (a single byte of the start, or a message cut anywhere before the  *)
(* end of its checksum), read_message raises ValueError, for the start or  *)
(* for the checksum, and not InverterEOFError; InverterEOFError is raised  *)
(* only when the stream ends exactly between two messages.                 *)
(***************************************************************************)
C38_CutIsValueError ==
    /\ (CutStream /\ rm_results # <<>>) =>
          rm_results[1].exc \in {"ValueError: Invalid start of message",
                                 "ValueError: Checksum invalid"}
    /\ \A k \in 1..Len(rm_results) :
          rm_results[k].exc = "InverterEOFError" => rm_results[k].from = Len(written)

\* What does hold: a call that has read a byte never raises InverterEOFError
\* and returns no message from a stream cut inside it; the error is the
\* ValueError of the claim unless the bytes read sum to 65536 or more.
C38_CutIsNotEOF ==
    /\ (CutStream /\ rm_results # <<>>) =>
          /\ rm_results[1].exc \notin {"none", "InverterEOFError"}
          /\ rm_results[1].to = Len(written)
          /\ Sum(written) < 65536 =>
                rm_results[1].exc \in {"ValueError: Invalid start of message",
                                       "ValueError: Checksum invalid"}
    /\ \A k \in 1..Len(rm_results) :
          rm_results[k].exc = "InverterEOFError" => rm_results[k].from = Len(written)

\* A message cut after its first checksum byte has been rejected for its
\* checksum, and the next call has found the end of the stream.
C38_Witness ==
    /\ CutStream /\ Len(written) = 10
    /\ Len(rm_results) = 2
    /\ rm_results[1].exc = "ValueError: Checksum invalid"
    /\ rm_results[2].exc = "InverterEOFError"


\* The foreground is inside stop_keep_alive.
InStop == fg_pc \in {"stop", "join"}

(***************************************************************************)
(* C40.  The handshake of stop and join cannot deadlock: when every send   *)
(* and receive of the transport ends (response, end of stream or timeout), *)
(* every call of stop_keep_alive returns, because the thread looks at the  *)
(* stop event after each exchange and its exchange uses the send and       *)
(* receive of the base class, which neither stop nor start the thread; so  *)
(* every foreground send, receive and disconnect comes to its own I/O.     *)
(***************************************************************************)
C40_StopReturns ==
    /\ InStop ~> (fg_pc = "io")
    /\ [][KaStep /\ UNCHANGED fgVars => UNCHANGED <<ka_thread, ka_stop>>]_vars
    /\ [][InStop /\ fg_pc' \notin {"stop", "join"} => fg_pc' = "io" /\ NoThread']_vars

\* disconnect() has come to its shutdown after it had waited for a thread
\* whose exchange was in progress and has ended by a timeout.
C40_Witness ==
    /\ fg_pc = "io" /\ fg_io = "disc"
    /\ ka_stop /\ NoThread
    /\ ka_pc = "crashed" /\ peer_open /\ ~closed
    /\ out_q # <<>>

====
